---- MODULE Spec2Model ----
(***************************************************************************)
(* The CFG -> CNF pipeline of kg-visualizer (buildAllSteps and its five    *)
(* step generators) as a state machine.                                    *)
(*                                                                         *)
(* A production is the sequence of the symbols of its string: a lower-case *)
(* letter, the one-character string U+03B5 (written EpsilonChar here), or  *)
(* an upper-case letter followed by digits.  Strings built by the code     *)
(* from such symbols tokenise back to the same symbols, so two production  *)
(* strings are equal exactly when their symbol sequences are.  The string  *)
(* 'eps' is the sequence e, p, s.                                          *)
(*                                                                         *)
(* The StepManager of steps.js, which plays the steps the pipeline built,  *)
(* is a second state machine over the variables stepManager and runtime.   *)
(***************************************************************************)
EXTENDS Integers, Sequences, FiniteSets, TLC

VARIABLES
    pc,             \* position of buildAllSteps
    run,            \* 1: first pipeline run, 2: run on the first run's output
    input,          \* the parsed grammar as it was handed to buildAllSteps
    grammar,        \* the `parsed` object, mutated by generateRemoveEpsilonSteps
    steps,          \* the trace: steps pushed so far, in order
    heap,           \* the production arrays that are shared between objects
    productiveVars, \* getLastProductiveVars(productiveSteps)
    cnfGraph,       \* getLastCnfGraph(...) handed to the next stage (a value table)
    local,          \* the local variables of the stage that is running
    firstOutput,    \* start symbol and rules of the first run's result
    stepManager,    \* the fields of the StepManager singleton of steps.js
    runtime         \* the armed interval timers, and the calls of the listeners

vars == <<pc, run, input, grammar, steps, heap, productiveVars, cnfGraph, local,
          firstOutput, stepManager, runtime>>

----------------------------------------------------------------------------
(* Bounds of the model *)

\* productions of an input grammar
MaxTotalProds == 4

\* the longest terminal string two languages are compared on
MaxWordLen == 3

----------------------------------------------------------------------------
(* Symbols *)

EpsilonChar == "epsilon"
EpsWord == <<"e", "p", "s">>
LowerLetters == {"a", "b", "c", "d", "e", "p", "s"}

candidates ==
    <<"Z", "Y", "X", "W", "V", "U", "T", "S", "R", "Q", "P", "O", "N",
      "M", "L", "K", "J", "I", "H", "G", "F", "E", "D", "C", "B", "A">>

Letters == {candidates[i] : i \in 1..Len(candidates)}

\* D0, D1, D2, ...: the fallback names, as far as the model needs them
FallbackNames == <<"D0", "D1", "D2", "D3">>

\* every nonterminal name of the model, in the order of Array.prototype.sort
\* and of localeCompare (which agree on these names)
NameOrder ==
    <<"A", "B", "C", "D", "D0", "D1", "D2", "D3", "E", "F", "G", "H", "I",
      "J", "K", "L", "M", "N", "O", "P", "Q", "R", "S", "S0", "T", "U",
      "V", "W", "X", "Y", "Z">>

NonTerminalNames == {NameOrder[i] : i \in 1..Len(NameOrder)}

isTerminal(symbol) == symbol \in LowerLetters

isNonTerminal(symbol) == symbol \in NonTerminalNames

isEpsilon(production) == production = <<EpsilonChar>>

\* the characters of a symbol (String.prototype.split(''))
CharsOf(symbol) ==
    IF symbol \in Letters \cup LowerLetters \cup {EpsilonChar} THEN <<symbol>>
    ELSE IF symbol = "S0" THEN <<"S", "0">>
    ELSE IF symbol = "D0" THEN <<"D", "0">>
    ELSE IF symbol = "D1" THEN <<"D", "1">>
    ELSE IF symbol = "D2" THEN <<"D", "2">>
    ELSE <<"D", "3">>

RECURSIVE Chars(_)
Chars(production) ==
    IF production = <<>> THEN <<>>
    ELSE CharsOf(Head(production)) \o Chars(Tail(production))

\* String.prototype.length of a production
StrLen(production) == Len(Chars(production))

Digits == {"0", "1", "2", "3"}

\* String concatenation of a letter and its digits
JoinName(letter, digit) ==
    CHOOSE n \in NonTerminalNames \cup {"?"} :
        \/ CharsOf(n) = <<letter, digit>> /\ n \in NonTerminalNames
        \/ n = "?" /\ \A k \in NonTerminalNames : CharsOf(k) # <<letter, digit>>

\* parseSymbols of step_4 and step_5: an upper-case letter takes the digit
\* that follows it
RECURSIVE parseChars(_)
parseChars(chars) ==
    IF chars = <<>> THEN <<>>
    ELSE IF Head(chars) \in Letters /\ Len(chars) >= 2 /\ chars[2] \in Digits
    THEN <<JoinName(chars[1], chars[2])>> \o parseChars(SubSeq(chars, 3, Len(chars)))
    ELSE <<Head(chars)>> \o parseChars(Tail(chars))

parseSymbols(production) ==
    IF isEpsilon(production) THEN <<EpsilonChar>> ELSE parseChars(Chars(production))

----------------------------------------------------------------------------
(* Sequences and tables *)

Range(s) == {s[i] : i \in 1..Len(s)}

includes(s, x) == \E i \in 1..Len(s) : s[i] = x

AppendUnique(s, x) == IF includes(s, x) THEN s ELSE Append(s, x)

\* JavaScript evaluates a value before it is used: F applied to the value of v
Eager(v, F(_)) == CHOOSE r \in {F(x) : x \in {v}} : TRUE

RECURSIVE AppendAllUnique(_, _)
AppendAllUnique(s, t) ==
    IF t = <<>> THEN s
    ELSE Eager(AppendUnique(s, Head(t)), LAMBDA next : AppendAllUnique(next, Tail(t)))

RECURSIVE Flatten(_)
Flatten(ss) == IF ss = <<>> THEN <<>> ELSE Head(ss) \o Flatten(Tail(ss))

\* Array.prototype.sort / localeCompare on nonterminal names
SortNames(S) == SelectSeq(NameOrder, LAMBDA n : n \in S)

\* A table is a JavaScript object used as a map: its keys in insertion
\* order, and the value of each key.
EmptyTable == [keys |-> <<>>, at |-> [k \in {} |-> <<>>]]

Has(t, k) == k \in DOMAIN t.at

Get(t, k) == IF Has(t, k) THEN t.at[k] ELSE <<>>

Put(t, k, v) ==
    IF Has(t, k)
    THEN [keys |-> t.keys, at |-> [t.at EXCEPT ![k] = v]]
    ELSE [keys |-> Append(t.keys, k), at |-> (k :> v) @@ t.at]

TableOf(keys, f(_)) == [keys |-> keys, at |-> [k \in Range(keys) |-> f(k)]]

\* the nonterminals occurring in the production bodies of a table
BodySymbols(t) ==
    {t.at[k][i][j] : <<k, i, j>> \in
        {<<k, i, j>> \in Range(t.keys) \X (1..8) \X (1..8) :
            i <= Len(t.at[k]) /\ j <= Len(t.at[k][i])}}

----------------------------------------------------------------------------
(* parseGrammar: the grammar object built from the lines of the input *)

\* the productions an input grammar may be made of
Pool ==
    <<[lhs |-> "S", rhs |-> <<"a">>],
      [lhs |-> "S", rhs |-> <<"A">>],
      [lhs |-> "S", rhs |-> <<"a", "A">>],
      [lhs |-> "S", rhs |-> <<"S", "A">>],
      [lhs |-> "S", rhs |-> <<"a", "S", "b">>],
      [lhs |-> "S", rhs |-> <<"a", "a", "a">>],
      [lhs |-> "S", rhs |-> <<"b", "b", "b">>],
      [lhs |-> "S", rhs |-> EpsWord],
      [lhs |-> "S", rhs |-> <<EpsilonChar>>],
      [lhs |-> "A", rhs |-> <<"a">>],
      [lhs |-> "A", rhs |-> <<"B">>],
      [lhs |-> "A", rhs |-> <<"A", "A">>],
      [lhs |-> "A", rhs |-> EpsWord],
      [lhs |-> "A", rhs |-> <<EpsilonChar>>],
      [lhs |-> "B", rhs |-> <<"b">>],
      [lhs |-> "B", rhs |-> <<"S">>],
      [lhs |-> "B", rhs |-> EpsWord],
      [lhs |-> "S", rhs |-> <<"S">>],
      [lhs |-> "S", rhs |-> <<"a", "b", "c", "d", "e">>],
      [lhs |-> "S", rhs |-> <<"A", "B">>]>>

\* the productions of lhs among the chosen ones, in input order
LineOf(chosen, lhs) ==
    LET idx == SelectSeq([i \in 1..Len(Pool) |-> i],
                         LAMBDA i : i \in chosen /\ Pool[i].lhs = lhs)
    IN  [i \in 1..Len(idx) |-> Pool[idx[i]].rhs]

\* collectSymbols: the names a line adds to grammar.nonTerminals
collectSymbols(productions) ==
    SelectSeq(Flatten(productions), LAMBDA s : ~isTerminal(s))

parseGrammar(chosen) ==
    LET lhss == SelectSeq(<<"S", "A", "B">>,
                          LAMBDA l : LineOf(chosen, l) # <<>>)
        keys == AppendUnique(lhss, "S")                       \* ensureStartSymbol
        perLine == [i \in 1..Len(lhss) |->
                      <<lhss[i]>> \o collectSymbols(LineOf(chosen, lhss[i]))]
    IN  [startSymbol |-> "S",
         productions |-> TableOf(keys, LAMBDA k : LineOf(chosen, k)),
         nonTerminals |-> AppendUnique(AppendAllUnique(<<>>, Flatten(perLine)), "S")]

InputGrammars ==
    {parseGrammar(chosen) : chosen \in
        {c \in SUBSET (1..Len(Pool)) : Cardinality(c) <= MaxTotalProds}}

----------------------------------------------------------------------------
(* Trace steps and grammar snapshots *)

\* A snapshot is the object a step holds as cnfGraph or
\* state.baseCNFProductions: its keys, for each key the array it refers to
\* (ref 0: an array that only this snapshot refers to, as deepCopy makes
\* them), and - for comparison - the contents of each array when the step
\* was pushed.
NoSnapshot == [keys |-> <<>>, ref |-> [k \in {} |-> 0], val |-> [k \in {} |-> <<>>]]

\* deepCopy(table)
DeepSnapshot(t) ==
    [keys |-> t.keys, ref |-> [k \in DOMAIN t.at |-> 0], val |-> t.at]

\* { ...object }: the keys are copied, the arrays are shared
ShallowSnapshot(rt, h) ==
    [keys |-> rt.keys, ref |-> rt.ref, val |-> [k \in DOMAIN rt.ref |-> h[rt.ref[k]]]]

\* what a snapshot shows when it is read now
SnapshotNow(s) ==
    [k \in DOMAIN s.ref |-> IF s.ref[k] = 0 THEN s.val[k] ELSE heap[s.ref[k]]]

Step(id, stage, base, graph) ==
    [id |-> id, stage |-> stage, isEmptyLanguage |-> "null", isInfinite |-> "null",
     base |-> base, graph |-> graph]

\* the value table of a table of array references
Deref(rt, h) == [keys |-> rt.keys, at |-> [k \in DOMAIN rt.ref |-> h[rt.ref[k]]]]

\* arrays for the values of a table, allocated at the end of the heap
AllocTable(t, h) ==
    [heap |-> h \o [i \in 1..Len(t.keys) |-> t.at[t.keys[i]]],
     table |-> [keys |-> t.keys,
                ref |-> [k \in DOMAIN t.at |->
                    Len(h) + (CHOOSE i \in 1..Len(t.keys) : t.keys[i] = k)]]]

----------------------------------------------------------------------------
(* Stage 1: generateIsProductiveSteps *)

isTerminalOnly(production) ==
    isEpsilon(production) \/ \A i \in 1..Len(production) : isTerminal(production[i])

\* isProductive without the look-up in productiveSet
isProductiveTerminalsOnly(production, productiveSet) ==
    isEpsilon(production) \/ \A i \in 1..Len(production) : isTerminal(production[i])

isProductive(production, productiveSet) ==
    \/ isEpsilon(production)
    \/ \A i \in 1..Len(production) :
          isTerminal(production[i]) \/ production[i] \in productiveSet

findTerminalProductions(prods) == SelectSeq(prods, isTerminalOnly)

findProductiveProductions(prods, productiveSet) ==
    SelectSeq(prods, LAMBDA p : isProductive(p, productiveSet))

filteredNonTerminals(g) == SelectSeq(g.nonTerminals, LAMBDA nt : nt # EpsilonChar)

addInitialProductiveSteps(productions, fnt) ==
    {v \in Range(fnt) : findTerminalProductions(Get(productions, v)) # <<>>}

\* a pass that returns the variables it found instead of adding them
processIterationVariablesFoundOnly(productions, fnt, productiveSet, i) ==
    {v \in Range(fnt) \ productiveSet :
        findProductiveProductions(Get(productions, v), productiveSet) # <<>>}

\* one pass over the nonterminals; the set grows while the pass runs
RECURSIVE processIterationVariables(_, _, _, _)
processIterationVariables(productions, fnt, productiveSet, i) ==
    IF i > Len(fnt) THEN productiveSet
    ELSE LET variable == fnt[i]
             add == /\ variable \notin productiveSet
                    /\ findProductiveProductions(Get(productions, variable),
                                                 productiveSet) # <<>>
         IN  Eager(IF add THEN productiveSet \cup {variable} ELSE productiveSet,
                   LAMBDA next : processIterationVariables(productions, fnt, next, i + 1))

\* the while (true) loop: passes until one adds nothing
RECURSIVE addFixpointSteps(_, _, _, _)
addFixpointSteps(productions, fnt, productiveSet, iteration) ==
    Eager(processIterationVariables(productions, fnt, productiveSet, 1),
          LAMBDA after :
              IF after = productiveSet
              THEN [productiveSet |-> productiveSet, iteration |-> iteration]
              ELSE addFixpointSteps(productions, fnt, after, iteration + 1))

\* PHASE 2 without the filter: all productions of the productive variables
productiveProductionsUnfiltered(productions, productiveSet) ==
    [v \in {w \in productiveSet : Get(productions, w) # <<>>} |-> Get(productions, v)]

\* PHASE 2: the productions of productive variables without any
\* non-productive symbol
productiveProductions(productions, productiveSet) ==
    [v \in {w \in productiveSet :
              findProductiveProductions(Get(productions, w), productiveSet) # <<>>}
        |-> findProductiveProductions(Get(productions, v), productiveSet)]

RECURSIVE getReachableLoop(_, _, _)
getReachableLoop(prods, queue, reachableSet) ==
    IF queue = <<>> THEN reachableSet
    ELSE LET v == Head(queue)
         IN  IF v \in reachableSet
             THEN getReachableLoop(prods, Tail(queue), reachableSet)
             ELSE LET reached == reachableSet \cup {v}
                      syms == Flatten(IF v \in DOMAIN prods THEN prods[v] ELSE <<>>)
                      more == SelectSeq(syms,
                                LAMBDA s : isNonTerminal(s) /\ s \notin reached)
                  IN  Eager(<<Tail(queue) \o more, reached>>,
                            LAMBDA next : getReachableLoop(prods, next[1], next[2]))

getReachableVariables(prods, startSymbol) ==
    getReachableLoop(prods, <<startSymbol>>, {})

generateIsProductiveSteps(g) ==
    LET fnt == filteredNonTerminals(g)
        init == addInitialProductiveSteps(g.productions, fnt)
        fix == addFixpointSteps(g.productions, fnt, init, 1)
        productiveSet == fix.productiveSet
        reachableSet ==
            getReachableVariables(productiveProductions(g.productions, productiveSet),
                                  g.startSymbol)
        finalProductiveSet == productiveSet \cap reachableSet
    IN  [productiveSet |-> productiveSet,
         reachableSet |-> reachableSet,
         finalProductiveSet |-> finalProductiveSet,
         iteration |-> fix.iteration,
         isEmptyLanguage |-> g.startSymbol \notin finalProductiveSet]

\* addResultStep: the last step of the stage (the stage's other steps hold
\* no grammar and are not kept in the model's trace)
addResultStep(r) ==
    [Step("productive-result", "result", NoSnapshot, NoSnapshot)
        EXCEPT !.isEmptyLanguage = r.isEmptyLanguage]

IsProductive ==
    /\ pc = "productive"
    /\ LET r == generateIsProductiveSteps(grammar)
       IN  /\ steps' = Append(steps, addResultStep(r))
           /\ productiveVars' = r.finalProductiveSet
    /\ pc' = "cnf-build"
    /\ UNCHANGED <<run, input, grammar, heap, cnfGraph, local, firstOutput,
                   stepManager, runtime>>

----------------------------------------------------------------------------
(* Stage 2: generateCNFBuildSteps *)

getSortedProductiveVars(productiveSet, startSymbol) ==
    <<startSymbol>> \o SortNames(productiveSet \ {startSymbol})

\* keeps 'eps' and every production whose characters are all terminals or
\* productive variables
getValidProductions(productions, productiveSet) ==
    SelectSeq(productions,
        LAMBDA prod :
            \/ prod = EpsWord
            \/ \A j \in 1..Len(Chars(prod)) :
                  isTerminal(Chars(prod)[j]) \/ Chars(prod)[j] \in productiveSet)

\* baseCNFProductions when the stage returns
generateCNFBuildSteps(g, productiveSet) ==
    LET sortedVarsList == getSortedProductiveVars(productiveSet, g.startSymbol)
        valid(v) == getValidProductions(Get(g.productions, v), productiveSet)
        keys == SelectSeq(sortedVarsList, LAMBDA v : valid(v) # <<>>)
    IN  TableOf(keys, valid)

\* the first n keys of a table of array references
Prefix(rt, n) ==
    [keys |-> SubSeq(rt.keys, 1, n),
     ref |-> [k \in Range(SubSeq(rt.keys, 1, n)) |-> rt.ref[k]]]

\* buildInitStep, buildAddVariableStep (one per added variable),
\* buildCompleteStep
cnfBuildSteps(rt, h, startSymbol) ==
    LET first == IF rt.keys # <<>> /\ rt.keys[1] = startSymbol THEN 1 ELSE 0
        snap(n) == ShallowSnapshot(Prefix(rt, n), h)
    IN  <<Step("cnf-init", "cnf-build", snap(first), snap(first))>>
        \o [i \in 1..(Len(rt.keys) - first) |->
              Step("cnf-add", "cnf-build", snap(first + i), snap(first + i))]
        \o <<Step("cnf-complete", "cnf-build", snap(Len(rt.keys)), snap(Len(rt.keys)))>>

CNFBuild ==
    /\ pc = "cnf-build"
    /\ LET base == generateCNFBuildSteps(grammar, productiveVars)
           a == AllocTable(base, heap)
       IN  /\ heap' = a.heap
           /\ steps' = steps \o cnfBuildSteps(a.table, a.heap, grammar.startSymbol)
           /\ cnfGraph' = base
    /\ pc' = "eps-intro"
    /\ UNCHANGED <<run, input, grammar, productiveVars, local, firstOutput,
                   stepManager, runtime>>

----------------------------------------------------------------------------
(* Stage 3, first half: generateRemoveEpsilonSteps up to 'cnf-eps-complete' *)

newStartSymbol == "S0"

\* parseSymbols of step_3: the string 'eps' is one symbol
parseSymbols3(production) == IF production = EpsWord THEN <<"eps">> ELSE production

\* bit posIndex of mask
maskBit(mask, posIndex) == (mask \div (2 ^ posIndex)) % 2 = 1

\* the variants of a production without some occurrences of variable: one
\* per non-zero mask over the positions of variable, empty ones dropped
generateVariantsWithoutVariable(production, variable) ==
    LET symbols == parseSymbols3(production)
        positions == SelectSeq([i \in 1..Len(symbols) |-> i],
                               LAMBDA i : symbols[i] = variable)
        posIndex(i) == CHOOSE j \in 1..Len(positions) : positions[j] = i
        keep(mask) == SelectSeq([i \in 1..Len(symbols) |-> i],
                        LAMBDA i : ~includes(positions, i) \/ ~maskBit(mask, posIndex(i) - 1))
        variant(mask) == [n \in 1..Len(keep(mask)) |-> symbols[keep(mask)[n]]]
        all == [mask \in 1..(2 ^ Len(positions) - 1) |-> variant(mask)]
    IN  IF positions = <<>> THEN <<>>
        ELSE AppendAllUnique(<<>>, SelectSeq(all, LAMBDA v : v # <<>>))

\* String.prototype.includes(variable) on a production string
stringIncludes(production, variable) ==
    \E i \in 1..Len(production) :
        \/ production[i] = variable
        \/ variable \in Letters /\ CharsOf(production[i])[1] = variable

\* rulesToAdd.get(A) of one eliminate-epsilon round
RECURSIVE rulesToAddLoop(_, _, _)
rulesToAddLoop(vs, have, acc) ==
    IF vs = <<>> THEN acc
    ELSE LET v == Head(vs)
             ok == ~includes(acc, v) /\ v # EpsWord /\ ~includes(have, v)
         IN  Eager(IF ok THEN Append(acc, v) ELSE acc,
                   LAMBDA next : rulesToAddLoop(Tail(vs), have, next))

rulesToAdd(upd, A, epsVar) ==
    LET affected == SelectSeq(upd.at[A],
                      LAMBDA prod : prod # EpsWord /\ stringIncludes(prod, epsVar))
        variants == Flatten([i \in 1..Len(affected) |->
                       generateVariantsWithoutVariable(affected[i], epsVar)])
    IN  rulesToAddLoop(variants, upd.at[A], <<>>)

\* the variables with an 'eps' production, S0 aside, in key order
nullableVarsOf(newProductions) ==
    SelectSeq(newProductions.keys,
        LAMBDA A : A # newStartSymbol /\ includes(newProductions.at[A], EpsWord))

\* lines 123-215: S0 is introduced, the 'eps' rules are found
IntroStart ==
    /\ pc = "eps-intro"
    /\ LET oldStartSymbol == grammar.startSymbol
           initialProductions ==
               IF cnfGraph.keys # <<>> THEN cnfGraph ELSE grammar.productions
           oldStartEps == includes(Get(initialProductions, oldStartSymbol), EpsWord)
           s0Rules == IF oldStartEps THEN <<<<oldStartSymbol>>, EpsWord>>
                                     ELSE <<<<oldStartSymbol>>>>
           newProductions == Put(initialProductions, newStartSymbol, s0Rules)
           a1 == AllocTable(newProductions, heap)
           a2 == AllocTable(newProductions, a1.heap)       \* updated = deepCopy(...)
           nullableVars == nullableVarsOf(newProductions)
           intro == Step("cnf-eps-intro-start", "cnf-eps",
                         ShallowSnapshot(a1.table, a2.heap),
                         ShallowSnapshot(a1.table, a2.heap))
           find == Step("cnf-eps-find", "cnf-eps",
                        ShallowSnapshot(a2.table, a2.heap),
                        ShallowSnapshot(a1.table, a2.heap))
       IN  /\ grammar' = [grammar EXCEPT
                            !.startSymbol = newStartSymbol,
                            !.productions = Put(@, newStartSymbol, s0Rules)]
           /\ heap' = a2.heap
           /\ steps' = steps \o <<intro>> \o
                       (IF nullableVars # <<>> THEN <<find>> ELSE <<>>)
           /\ local' = [updated |-> a2.table, nullableVars |-> nullableVars,
                        hadNullable |-> nullableVars # <<>>]
    /\ pc' = "eps-eliminate"
    /\ UNCHANGED <<run, input, productiveVars, cnfGraph, firstOutput,
                   stepManager, runtime>>

\* lines 217-325: one round of the loop over nullableVars
EliminateEpsilon ==
    /\ pc = "eps-eliminate"
    /\ local.nullableVars # <<>>
    /\ LET epsVar == Head(local.nullableVars)
           updated == local.updated
           upd == Deref(updated, heap)
           \* updated[A].push(rule): the array is changed in place
           pushed == [r \in 1..Len(heap) |->
                        IF \E A \in DOMAIN updated.ref : updated.ref[A] = r
                        THEN LET A == CHOOSE B \in DOMAIN updated.ref : updated.ref[B] = r
                             IN  heap[r] \o rulesToAdd(upd, A, epsVar)
                        ELSE heap[r]]
           \* updated[epsVar] = updated[epsVar].filter(...): a new array
           filtered == SelectSeq(pushed[updated.ref[epsVar]], LAMBDA p : p # EpsWord)
           heap2 == Append(pushed, filtered)
           updated2 == [updated EXCEPT !.ref[epsVar] = Len(heap2)]
       IN  /\ heap' = heap2
           /\ steps' = Append(steps, Step("cnf-eps-eliminate", "cnf-eps",
                                          ShallowSnapshot(updated2, heap2),
                                          ShallowSnapshot(updated2, heap2)))
           /\ local' = [local EXCEPT !.updated = updated2,
                                     !.nullableVars = Tail(local.nullableVars)]
    /\ UNCHANGED <<pc, run, input, grammar, productiveVars, cnfGraph, firstOutput,
                   stepManager, runtime>>

\* lines 327-376: the 'eps' rules of all variables but S0 are dropped (when
\* there were nullable variables), the summary step is pushed
EpsilonComplete ==
    /\ pc = "eps-eliminate"
    /\ local.nullableVars = <<>>
    /\ LET updated == local.updated
           others == SelectSeq(updated.keys, LAMBDA A : A # newStartSymbol)
           \* updated[A] = updated[A].filter(...): new arrays
           heap2 == IF local.hadNullable
                    THEN heap \o [i \in 1..Len(others) |->
                            SelectSeq(heap[updated.ref[others[i]]], LAMBDA p : p # EpsWord)]
                    ELSE heap
           updated2 ==
               IF local.hadNullable
               THEN [updated EXCEPT !.ref = [k \in DOMAIN updated.ref |->
                        IF k = newStartSymbol THEN updated.ref[k]
                        ELSE Len(heap) + (CHOOSE i \in 1..Len(others) : others[i] = k)]]
               ELSE updated
           snap == ShallowSnapshot(updated2, heap2)
           after == Step("cnf-eps-after-elimination", "cnf-eps", snap, snap)
           complete == Step("cnf-eps-complete", "cnf-eps", snap, snap)
       IN  /\ heap' = heap2
           /\ steps' = steps \o (IF local.hadNullable THEN <<after>> ELSE <<>>)
                             \o <<complete>>
           /\ grammar' = [grammar EXCEPT !.productions = Deref(updated2, heap2)]
           /\ local' = [updated |-> updated2]
    /\ pc' = "unit-init"
    /\ UNCHANGED <<run, input, productiveVars, cnfGraph, firstOutput,
                   stepManager, runtime>>

----------------------------------------------------------------------------
(* Stage 3, second half: unit productions *)

\* a production string that is one nonterminal
isUnit(prod) == Len(prod) = 1 /\ isNonTerminal(prod[1])

\* closure[A] when the while (changed) loop ends: A and the targets of A's
\* own unit productions, in insertion order
computeUnitClosure(prods) ==
    [A \in Range(prods.keys) |->
        AppendAllUnique(<<A>>,
            [i \in 1..Len(SelectSeq(prods.at[A], isUnit)) |->
                SelectSeq(prods.at[A], isUnit)[i][1]])]

\* toAdd after the B-loop of variable A (lines 463-488)
RECURSIVE toAddLoop(_, _, _)
toAddLoop(A, cands, toAdd) ==
    IF cands = <<>> THEN toAdd
    ELSE LET prod == Head(cands)
             take == /\ ~isUnit(prod)
                     /\ ~includes(toAdd, prod)
                     /\ ~(A # newStartSymbol /\ includes(parseSymbols3(prod), newStartSymbol))
         IN  Eager(IF take THEN Append(toAdd, prod) ELSE toAdd,
                   LAMBDA next : toAddLoop(A, Tail(cands), next))

toAddOf(A, closure, unitProcessed) ==
    LET Bs == SelectSeq(closure[A], LAMBDA B : B # A)
    IN  toAddLoop(A, Flatten([i \in 1..Len(Bs) |-> Get(unitProcessed, Bs[i])]), <<>>)

addedProdsOf(A, closure, unitProcessed) ==
    SelectSeq(toAddOf(A, closure, unitProcessed),
              LAMBDA p : ~includes(Get(unitProcessed, A), p))

\* lines 406-452: the unit productions are listed; without any the stage
\* returns here
UnitInit ==
    /\ pc = "unit-init"
    /\ LET updated == local.updated
           upd == Deref(updated, heap)
           anyUnit == \E A \in Range(upd.keys) : SelectSeq(upd.at[A], isUnit) # <<>>
           a == AllocTable(upd, heap)                 \* unitProcessed = deepCopy(updated)
           snap == ShallowSnapshot(updated, heap)
       IN  IF anyUnit
           THEN /\ heap' = a.heap
                /\ steps' = Append(steps, Step("cnf-unit-init", "cnf-unit", snap, snap))
                /\ local' = [updated |-> updated,
                             unitClosure |-> computeUnitClosure(upd),
                             unitProcessed |-> a.table,
                             sortedVars |-> SortNames(Range(upd.keys))]
                /\ pc' = "unit-process"
                /\ UNCHANGED cnfGraph
           ELSE /\ cnfGraph' = upd
                /\ local' = <<>>
                /\ pc' = "isolate"
                /\ UNCHANGED <<heap, steps>>
    /\ UNCHANGED <<run, input, grammar, productiveVars, firstOutput,
                   stepManager, runtime>>

\* lines 457-559: one variable of sortedVars.forEach
UnitProcess ==
    /\ pc = "unit-process"
    /\ local.sortedVars # <<>>
    /\ LET A == Head(local.sortedVars)
           unitProcessed == local.unitProcessed
           addedProds == addedProdsOf(A, local.unitClosure, Deref(unitProcessed, heap))
           \* unitProcessed[A].push(prod): the array is changed in place
           heap2 == [heap EXCEPT ![unitProcessed.ref[A]] = @ \o addedProds]
           snap == ShallowSnapshot(unitProcessed, heap2)
       IN  /\ heap' = heap2
           /\ steps' = IF addedProds # <<>>
                       THEN Append(steps, Step("cnf-unit-process", "cnf-unit", snap, snap))
                       ELSE steps
           /\ local' = [local EXCEPT !.sortedVars = Tail(local.sortedVars)]
    /\ UNCHANGED <<pc, run, input, grammar, productiveVars, cnfGraph, firstOutput,
                   stepManager, runtime>>

\* S0's productions that are neither 'eps' nor contain S0
s0ProductionsOf(g, startSym) ==
    SelectSeq(Get(g, startSym),
        LAMBDA p : p # EpsWord /\ ~includes(parseSymbols3(p), startSym))

\* one expansion per S0 production: every S0 of symbols replaced by it
expandStartSymbolInProduction(symbols, startSym, s0Productions) ==
    LET expanded(s0Prod) ==
            Flatten([i \in 1..Len(symbols) |->
                IF symbols[i] = startSym THEN parseSymbols3(s0Prod) ELSE <<symbols[i]>>])
        all == [n \in 1..Len(s0Productions) |-> expanded(s0Productions[n])]
    IN  IF ~includes(symbols, startSym) THEN <<symbols>>
        ELSE SelectSeq(all, LAMBDA e : e # <<>> /\ e # EpsWord)

\* newProductions of one variable in protectStartSymbol
RECURSIVE protectLoop(_, _, _, _)
protectLoop(prods, startSym, s0Productions, acc) ==
    IF prods = <<>> THEN acc
    ELSE LET prod == Head(prods)
             symbols == parseSymbols3(prod)
             exps == SelectSeq(
                        expandStartSymbolInProduction(symbols, startSym, s0Productions),
                        LAMBDA e : e # EpsWord)
         IN  Eager(IF includes(symbols, startSym)
                   THEN AppendAllUnique(acc, exps)
                   ELSE Append(acc, prod),
                   LAMBDA next : protectLoop(Tail(prods), startSym, s0Productions, next))

\* [changed, the grammar afterwards]
protectStartSymbol(g, startSym) ==
    LET s0Productions == s0ProductionsOf(g, startSym)
        hit == \E A \in Range(g.keys) :
                  /\ A # startSym
                  /\ \E i \in 1..Len(g.at[A]) : includes(parseSymbols3(g.at[A][i]), startSym)
    IN  IF s0Productions = <<>> THEN [changed |-> FALSE, grammar |-> g]
        ELSE [changed |-> hit,
              grammar |-> TableOf(g.keys,
                  LAMBDA A : IF A = startSym THEN g.at[A]
                             ELSE protectLoop(g.at[A], startSym, s0Productions, <<>>))]

\* reachable as the queue loop leaves it, in insertion order
RECURSIVE computeReachableLoop(_, _, _)
computeReachableLoop(prods, queue, reachable) ==
    IF queue = <<>> THEN reachable
    ELSE LET syms == Flatten([i \in 1..Len(Get(prods, Head(queue))) |->
                                parseSymbols3(Get(prods, Head(queue))[i])])
             new == AppendAllUnique(<<>>,
                       SelectSeq(syms,
                           LAMBDA s : isNonTerminal(s) /\ ~includes(reachable, s)))
         IN  Eager(<<Tail(queue) \o new, reachable \o new>>,
                   LAMBDA next : computeReachableLoop(prods, next[1], next[2]))

\* computeReachableVars without the traversal: every variable is kept
computeReachableVarsAllKeys(prods, startSym) ==
    AppendAllUnique(<<startSym>>, prods.keys)

computeReachableVars(prods, startSym) ==
    computeReachableLoop(prods, <<startSym>>, <<startSym>>)

\* lines 561-768: unit productions are deleted, S0 is expanded on right-hand
\* sides, unreachable variables are dropped
UnitFinish ==
    /\ pc = "unit-process"
    /\ local.sortedVars = <<>>
    /\ LET unit == Deref(local.unitProcessed, heap)
           filtered == TableOf(unit.keys,
                          LAMBDA A : SelectSeq(unit.at[A], LAMBDA p : ~isUnit(p)))
           protected == protectStartSymbol(filtered, newStartSymbol)
           finalGrammar == protected.grammar
           reachableVars == computeReachableVars(finalGrammar, newStartSymbol)
           cleanedGrammar == TableOf(reachableVars, LAMBDA v : Get(finalGrammar, v))
           a1 == AllocTable(finalGrammar, heap)
           a2 == AllocTable(cleanedGrammar, a1.heap)
           protect == Step("cnf-unit-protect-start", "cnf-unit",
                           ShallowSnapshot(a1.table, a2.heap),
                           ShallowSnapshot(a1.table, a2.heap))
           complete == Step("cnf-unit-complete", "cnf-unit",
                            ShallowSnapshot(a2.table, a2.heap),
                            ShallowSnapshot(a2.table, a2.heap))
       IN  /\ heap' = a2.heap
           /\ steps' = steps \o (IF protected.changed THEN <<protect>> ELSE <<>>)
                             \o <<complete>>
           /\ grammar' = [grammar EXCEPT !.productions = cleanedGrammar]
           /\ cnfGraph' = cleanedGrammar
           \* finalGrammar as protectStartSymbol received it and as it left it
           /\ local' = [unitFiltered |-> filtered,
                        finalGrammar |-> finalGrammar,
                        s0WasRemoved |-> protected.changed]
    /\ pc' = "isolate"
    /\ UNCHANGED <<run, input, productiveVars, firstOutput,
                   stepManager, runtime>>

----------------------------------------------------------------------------
(* Stage 4: generateIsolateLongSteps *)

DeepStep(id, stage, t) == Step(id, stage, DeepSnapshot(t), DeepSnapshot(t))

\* the map without the exception for the start symbol
buildExistingTerminalMapAnyVariable(productions, startSymbol) ==
    LET has(V, t) == includes(productions.at[V], <<t>>)
        ts == {t \in LowerLetters : \E V \in Range(productions.keys) : has(V, t)}
    IN  [t \in ts |->
            productions.keys[CHOOSE i \in 1..Len(productions.keys) :
                /\ has(productions.keys[i], t)
                /\ \A j \in 1..(i - 1) : ~has(productions.keys[j], t)]]

\* terminal -> the first variable, the start symbol aside, with the
\* production V -> terminal
buildExistingTerminalMap(productions, startSymbol) ==
    LET has(V, t) == V # startSymbol /\ includes(productions.at[V], <<t>>)
        ts == {t \in LowerLetters : \E V \in Range(productions.keys) : has(V, t)}
    IN  [t \in ts |->
            productions.keys[CHOOSE i \in 1..Len(productions.keys) :
                /\ has(productions.keys[i], t)
                /\ \A j \in 1..(i - 1) : ~has(productions.keys[j], t)]]

\* step_4's allocateNewVariable
allocateNewVariableIsolate(usedVars) ==
    IF \E i \in 1..Len(candidates) : candidates[i] \notin usedVars
    THEN candidates[CHOOSE i \in 1..Len(candidates) :
            /\ candidates[i] \notin usedVars
            /\ \A j \in 1..(i - 1) : candidates[j] \in usedVars]
    ELSE "Z"

\* the (variable, production index, position) triples the three loops visit
\* at which a terminal stands
isolatePositions(productions) ==
    LET sortedVars == SortNames(Range(productions.keys))
        ofProd(A, i) ==
            LET p == productions.at[A][i]
            IN  IF isEpsilon(p) \/ StrLen(p) < 2 THEN <<>>
                ELSE SelectSeq([pos \in 1..Len(parseSymbols(p)) |-> <<A, i, pos>>],
                               LAMBDA x : isTerminal(parseSymbols(p)[x[3]]))
        ofVar(A) == Flatten([i \in 1..Len(productions.at[A]) |-> ofProd(A, i)])
    IN  Flatten([n \in 1..Len(sortedVars) |-> ofVar(sortedVars[n])])

\* getOrCreateTerminalVar and the replacement at one position
isolateAt(st, A, i, pos) ==
    LET s == parseSymbols(st.productions.at[A][i])[pos]
        reuse == s \in DOMAIN st.terminalVarMap
        newVar == allocateNewVariableIsolate(st.usedVars)
        Vt == IF reuse THEN st.terminalVarMap[s] ELSE newVar
        created == IF reuse THEN st.productions
                   ELSE Put(st.productions, newVar,
                            AppendUnique(Get(st.productions, newVar), <<s>>))
        p == created.at[A][i]
        newProd == [parseSymbols(p) EXCEPT ![pos] = Vt]
        replaced == Put(created, A, [created.at[A] EXCEPT ![i] = newProd])
    IN  [productions |-> replaced,
         usedVars |-> IF reuse THEN st.usedVars ELSE st.usedVars \cup {newVar},
         terminalVarMap |-> IF reuse THEN st.terminalVarMap
                            ELSE (s :> newVar) @@ st.terminalVarMap,
         \* each call of allocateNewVariable: the name it returned and the
         \* working grammar it was called in
         allocated |-> IF reuse THEN st.allocated
                       ELSE Append(st.allocated,
                                   [newVar |-> newVar, working |-> st.productions]),
         steps |-> st.steps
             \o (IF reuse THEN <<>>
                 ELSE <<DeepStep("cnf-long-create", "cnf-long", created)>>)
             \o <<DeepStep("cnf-long-replace", "cnf-long", replaced)>>]

RECURSIVE isolateLoop(_, _)
isolateLoop(st, todo) ==
    IF todo = <<>> THEN st
    ELSE Eager(isolateAt(st, Head(todo)[1], Head(todo)[2], Head(todo)[3]),
               LAMBDA next : isolateLoop(next, Tail(todo)))

generateIsolateLongSteps(g, graph) ==
    LET productions == IF graph.keys # <<>> THEN graph ELSE g.productions
        st0 == [productions |-> productions,
                usedVars |-> Range(g.productions.keys) \cup Range(productions.keys),
                terminalVarMap |-> buildExistingTerminalMap(productions, g.startSymbol),
                allocated |-> <<>>,
                steps |-> <<DeepStep("cnf-long-init", "cnf-long", productions)>>]
        st == isolateLoop(st0, isolatePositions(productions))
    IN  [st EXCEPT !.steps =
            Append(@, DeepStep("cnf-long-complete", "cnf-long", st.productions))]

IsolateLong ==
    /\ pc = "isolate"
    /\ LET r == generateIsolateLongSteps(grammar, cnfGraph)
       IN  /\ steps' = steps \o r.steps
           /\ cnfGraph' = r.productions
           /\ local' = [isolated |-> r.allocated]
    /\ pc' = "binary"
    /\ UNCHANGED <<run, input, grammar, heap, productiveVars, firstOutput,
                   stepManager, runtime>>

----------------------------------------------------------------------------
(* Stage 5: generateBinaryKaskadierungSteps *)

\* part_006's allocateNewVariable
allocateNewVariableBinary(usedVars) ==
    IF \E i \in 1..Len(candidates) : candidates[i] \notin usedVars
    THEN candidates[CHOOSE i \in 1..Len(candidates) :
            /\ candidates[i] \notin usedVars
            /\ \A j \in 1..(i - 1) : candidates[j] \in usedVars]
    ELSE FallbackNames[CHOOSE i \in 1..Len(FallbackNames) :
            /\ FallbackNames[i] \notin usedVars
            /\ \A j \in 1..(i - 1) : FallbackNames[j] \in usedVars]

\* the loop allocating n helper variables
RECURSIVE allocateHelpers(_, _)
allocateHelpers(usedVars, n) ==
    IF n = 0 THEN <<>>
    ELSE LET newVar == allocateNewVariableBinary(usedVars)
         IN  <<newVar>> \o allocateHelpers(usedVars \cup {newVar}, n - 1)

\* the filter that removes nothing
filterIndexKeepsAll(prods, i) == prods

\* current[A].filter((p, idx) => idx !== i), i counted from 1
filterIndex(prods, i) ==
    [n \in 1..(Len(prods) - (IF i <= Len(prods) THEN 1 ELSE 0)) |->
        IF n < i THEN prods[n] ELSE prods[n + 1]]

\* the rules helper j -> symbols[j+1] helper[j+1], and the last one
RECURSIVE chainRules(_, _, _, _)
chainRules(st, symbols, helperVars, j) ==
    LET m == Len(symbols)
        rule == IF j < m - 2 THEN <<symbols[j + 1], helperVars[j + 1]>>
                ELSE <<symbols[m - 1], symbols[m]>>
        cur == Put(st.current, helperVars[j],
                   Append(Get(st.current, helperVars[j]), rule))
        st1 == [st EXCEPT !.current = cur,
                   !.steps = Append(@, DeepStep("cnf-binary-rule", "cnf-binary", cur))]
    IN  IF j > m - 2 THEN st
        ELSE Eager(st1, LAMBDA next : chainRules(next, symbols, helperVars, j + 1))

\* a cascade that forgets the helpers of the bodies it has seen
isNewCascadeAlways(st, prod) == TRUE

\* !productionToCascadeVars.has(prodKey)
isNewCascadeOf(st, prod) == prod \notin DOMAIN st.productionToCascadeVars

\* the body of the loop over the productions captured in prods
cascadeAt(st, A, prods, i) ==
    LET prod == prods[i]
        symbols == parseSymbols(prod)
        m == Len(symbols)
        isNewCascade == isNewCascadeOf(st, prod)
        helperVars == IF isNewCascade THEN allocateHelpers(st.usedVars, m - 2)
                      ELSE st.productionToCascadeVars[prod]
        firstRule == <<symbols[1], helperVars[1]>>
        cur == Put(st.current, A, Append(filterIndex(st.current.at[A], i), firstRule))
        st1 == [current |-> cur,
                usedVars |-> st.usedVars \cup Range(helperVars),
                allocated |-> IF isNewCascade
                              THEN st.allocated \o
                                   [j \in 1..Len(helperVars) |->
                                       [newVar |-> helperVars[j], working |-> st.current]]
                              ELSE st.allocated,
                productionToCascadeVars |->
                    (prod :> helperVars) @@ st.productionToCascadeVars,
                steps |-> st.steps
                    \o <<DeepStep("cnf-binary-helpers", "cnf-binary", st.current),
                         DeepStep("cnf-binary-rule", "cnf-binary", cur)>>]
    IN  IF isEpsilon(prod) \/ m < 3 THEN st
        ELSE IF isNewCascade THEN chainRules(st1, symbols, helperVars, 1)
        ELSE st1

RECURSIVE cascadeProds(_, _, _, _)
cascadeProds(st, A, prods, i) ==
    IF i > Len(prods) THEN st
    ELSE Eager(cascadeAt(st, A, prods, i),
               LAMBDA next : cascadeProds(next, A, prods, i + 1))

RECURSIVE cascadeVars(_, _)
cascadeVars(st, sortedVars) ==
    IF sortedVars = <<>> THEN st
    ELSE LET A == Head(sortedVars)
         IN  Eager(cascadeProds(st, A, Get(st.current, A), 1),
                   LAMBDA next : cascadeVars(next, Tail(sortedVars)))

\* the derivation graph of detectCycleWithSteps
cycleGraph(productions) ==
    [A \in Range(productions.keys) |->
        {symbol \in BodySymbols([keys |-> <<A>>, at |-> [k \in {A} |-> productions.at[A]]]) :
            isNonTerminal(symbol) /\ symbol \in Range(productions.keys)}]

RECURSIVE dfs(_, _, _)
RECURSIVE dfsNeighbors(_, _, _)

\* a search that takes every edge into a visited node for a cycle
RECURSIVE dfsNeighborsAnyVisited(_, _, _)
dfsNeighborsAnyVisited(graph, neighbors, st) ==
    IF neighbors = <<>> THEN st
    ELSE LET neighbor == Head(neighbors)
         IN  IF neighbor \notin st.visited
             THEN Eager(dfs(graph, neighbor,
                            [st EXCEPT !.dfsSteps = Append(@, "explore-edge")]),
                        LAMBDA r : IF r.hasCycle THEN r
                                   ELSE dfsNeighborsAnyVisited(graph, Tail(neighbors), r))
             ELSE [st EXCEPT !.hasCycle = TRUE,
                             !.dfsSteps = Append(@, "cycle-found")]

dfs(graph, node, st) ==
    Eager(dfsNeighbors(graph, SortNames(graph[node]),
                       [st EXCEPT !.visited = @ \cup {node},
                                  !.recursionStack = @ \cup {node},
                                  !.dfsSteps = Append(@, "visit-node")]),
          LAMBDA r : IF r.hasCycle THEN r
                     ELSE [r EXCEPT !.recursionStack = @ \ {node},
                                    !.dfsSteps = Append(@, "backtrack")])

dfsNeighbors(graph, neighbors, st) ==
    IF neighbors = <<>> THEN st
    ELSE LET neighbor == Head(neighbors)
         IN  IF neighbor \notin st.visited
             THEN Eager(dfs(graph, neighbor,
                            [st EXCEPT !.dfsSteps = Append(@, "explore-edge")]),
                        LAMBDA r : IF r.hasCycle THEN r
                                   ELSE dfsNeighbors(graph, Tail(neighbors), r))
             ELSE IF neighbor \in st.recursionStack
             THEN [st EXCEPT !.hasCycle = TRUE,
                             !.dfsSteps = Append(@, "cycle-found")]
             ELSE dfsNeighbors(graph, Tail(neighbors), st)

RECURSIVE dfsRoots(_, _, _)
dfsRoots(graph, allVars, st) ==
    IF allVars = <<>> THEN st
    ELSE IF Head(allVars) \in st.visited THEN dfsRoots(graph, Tail(allVars), st)
    ELSE Eager(dfs(graph, Head(allVars),
                   [st EXCEPT !.dfsSteps = Append(@, "start-dfs")]),
               LAMBDA r : IF r.hasCycle THEN r ELSE dfsRoots(graph, Tail(allVars), r))

detectCycleWithSteps(productions) ==
    LET graph == cycleGraph(productions)
    IN  dfsRoots(graph, SortNames(DOMAIN graph),
                 [visited |-> {}, recursionStack |-> {}, hasCycle |-> FALSE,
                  dfsSteps |-> <<>>])

generateBinaryKaskadierungSteps(g, graph) ==
    LET productions == IF graph.keys # <<>> THEN graph ELSE g.productions
        st0 == [current |-> productions,
                usedVars |-> Range(g.productions.keys) \cup Range(productions.keys),
                productionToCascadeVars |-> [x \in {} |-> <<>>],
                allocated |-> <<>>,
                steps |-> <<DeepStep("cnf-binary-init", "cnf-binary", productions)>>]
        st == cascadeVars(st0, SortNames(Range(productions.keys)))
        current == st.current
        cycleDetection == detectCycleWithSteps(current)
    IN  [current |-> current,
         allocated |-> st.allocated,
         steps |-> st.steps
            \o <<DeepStep("cnf-binary-complete", "cnf-binary", current)>>
            \o [n \in 1..Len(cycleDetection.dfsSteps) |->
                    DeepStep("cnf-binary-cycle-step", "cnf-binary", current)]
            \o <<[DeepStep("cnf-binary-result", "cnf-binary", current)
                    EXCEPT !.isInfinite = cycleDetection.hasCycle]>>]

BinaryKaskadierung ==
    /\ pc = "binary"
    /\ LET r == generateBinaryKaskadierungSteps(grammar, cnfGraph)
       IN  /\ steps' = steps \o r.steps
           /\ cnfGraph' = r.current
           /\ firstOutput' = IF run = 1 THEN r.current ELSE firstOutput
           /\ local' = [isolated |-> local.isolated, cascaded |-> r.allocated]
    /\ pc' = "done"
    /\ UNCHANGED <<run, input, grammar, heap, productiveVars,
                   stepManager, runtime>>

----------------------------------------------------------------------------
(* StepManager (steps.js): the singleton that plays the steps *)

\* the longest step list handed to initializeSteps
MaxSteps == 4

\* the interval ids the runtime has to give
MaxTimers == 2

\* the values setPlaybackSpeed is called with
Speeds == {500, 1000}

\* playbackInterval = null
null == 0

\* the listener that useStepManager subscribes
Listeners == {"setStatus"}

\* constructor
NewStepManager ==
    [steps |-> <<>>, currentIndex |-> 0, isPlaying |-> FALSE, playbackSpeed |-> 1000,
     playbackInterval |-> null, listeners |-> {}]

\* no interval is armed, no operation was called, no listener was called
NoRuntime == [timers |-> {}, op |-> "none", arg |-> 0, delivered |-> <<>>]

\* the state an operation works on: the object, the armed intervals and the
\* statuses handed to the listeners since the operation was called
World(m, r) == [m |-> m, timers |-> r.timers, delivered |-> <<>>]

\* getStatus, without the step object: currentIndex, totalSteps, isPlaying
getStatus(m) ==
    [currentIndex |-> m.currentIndex, totalSteps |-> Len(m.steps),
     isPlaying |-> m.isPlaying]

\* one call per subscribed listener
notifyListeners(w) ==
    IF w.m.listeners = {} THEN w
    ELSE [w EXCEPT !.delivered = Append(@, getStatus(w.m))]

clearPlayback(w) ==
    IF w.m.playbackInterval # null
    THEN [w EXCEPT !.timers = @ \ {w.m.playbackInterval},
                   !.m.playbackInterval = null]
    ELSE w

\* a test that lets every call advance
canAdvanceAlways(m) == TRUE

canAdvance(m) == m.currentIndex < Len(m.steps) - 1

\* the id setInterval returns: one that no armed interval has
setInterval(timers) == CHOOSE id \in 1..MaxTimers : id \notin timers

initializeSteps(w, newSteps) ==
    notifyListeners(clearPlayback(
        [w EXCEPT !.m.steps = newSteps, !.m.currentIndex = 0, !.m.isPlaying = FALSE]))

next(w) ==
    IF ~canAdvance(w.m) THEN w
    ELSE notifyListeners([w EXCEPT !.m.currentIndex = @ + 1])

prev(w) ==
    IF w.m.currentIndex > 0
    THEN notifyListeners([w EXCEPT !.m.currentIndex = @ - 1])
    ELSE w

play(w) ==
    IF w.m.isPlaying \/ ~canAdvance(w.m) THEN w
    ELSE LET id == setInterval(w.timers)
         IN  notifyListeners([w EXCEPT !.m.isPlaying = TRUE,
                                       !.m.playbackInterval = id,
                                       !.timers = @ \cup {id}])

pause(w) == notifyListeners(clearPlayback([w EXCEPT !.m.isPlaying = FALSE]))

\* a jump to the last step, with one call of the listeners
replayAllRemainingStepsLastOnly(w) ==
    IF w.m.currentIndex < Len(w.m.steps)
    THEN notifyListeners([w EXCEPT !.m.currentIndex = Len(w.m.steps) - 1])
    ELSE w

\* the for loop: the indices from currentIndex to the last one
replayAllRemainingSteps(w) ==
    LET from == w.m.currentIndex
        count == IF from < Len(w.m.steps) THEN Len(w.m.steps) - from ELSE 0
        at(k) == [w.m EXCEPT !.currentIndex = from + k - 1]
    IN  IF count = 0 THEN w
        ELSE [w EXCEPT !.m = at(count),
                       !.delivered = IF w.m.listeners = {} THEN @
                                     ELSE @ \o [k \in 1..count |-> getStatus(at(k))]]

skipToEnd(w) == replayAllRemainingSteps(pause(w))

reset(w) == notifyListeners([pause(w) EXCEPT !.m.currentIndex = 0])

jumpToStep(w, index) ==
    IF index >= 0 /\ index < Len(w.m.steps)
    THEN notifyListeners([pause(w) EXCEPT !.m.currentIndex = index])
    ELSE w

setPlaybackSpeed(w, speed) ==
    LET set == [w EXCEPT !.m.playbackSpeed = speed]
    IN  IF set.m.isPlaying THEN play(pause(set)) ELSE set

subscribe(w, listener) == [w EXCEPT !.m.listeners = @ \cup {listener}]

destroy(w) == [clearPlayback(w) EXCEPT !.m.listeners = {}]

\* a callback that keeps its interval at the last step
advancePlaybackNeverStops(w) ==
    IF canAdvance(w.m)
    THEN notifyListeners([w EXCEPT !.m.currentIndex = @ + 1])
    ELSE w

advancePlayback(w) ==
    IF canAdvance(w.m)
    THEN notifyListeners([w EXCEPT !.m.currentIndex = @ + 1])
    ELSE pause(w)

\* the step lists: the steps are named by their position
StepLists == {[i \in 1..n |-> i] : n \in 0..MaxSteps}

\* the object and the runtime after the operation `op` was called with `arg`
Called(op, arg, w) ==
    /\ stepManager' = w.m
    /\ runtime' = [timers |-> w.timers, op |-> op, arg |-> arg,
                   delivered |-> w.delivered]
    /\ UNCHANGED <<pc, run, input, grammar, steps, heap, productiveVars, cnfGraph,
                   local, firstOutput>>

\* an interval id is free whenever play may ask for one
CanSetInterval == \E id \in 1..MaxTimers : id \notin runtime.timers

CallSubscribe ==
    /\ pc = "manager"
    /\ \E listener \in Listeners :
          Called("subscribe", 0, subscribe(World(stepManager, runtime), listener))

CallInitializeSteps ==
    /\ pc = "manager"
    /\ \E newSteps \in StepLists :
          Called("initializeSteps", Len(newSteps),
                 initializeSteps(World(stepManager, runtime), newSteps))

CallNext == pc = "manager" /\ Called("next", 0, next(World(stepManager, runtime)))

CallPrev == pc = "manager" /\ Called("prev", 0, prev(World(stepManager, runtime)))

CallPlay ==
    /\ pc = "manager"
    /\ CanSetInterval
    /\ Called("play", 0, play(World(stepManager, runtime)))

CallPause == pc = "manager" /\ Called("pause", 0, pause(World(stepManager, runtime)))

CallSkipToEnd ==
    pc = "manager" /\ Called("skipToEnd", 0, skipToEnd(World(stepManager, runtime)))

CallReset == pc = "manager" /\ Called("reset", 0, reset(World(stepManager, runtime)))

CallJumpToStep ==
    /\ pc = "manager"
    /\ \E index \in (0 - 1)..(MaxSteps + 1) :
          Called("jumpToStep", index, jumpToStep(World(stepManager, runtime), index))

CallSetPlaybackSpeed ==
    /\ pc = "manager"
    /\ \E speed \in Speeds :
          Called("setPlaybackSpeed", speed,
                 setPlaybackSpeed(World(stepManager, runtime), speed))

CallDestroy ==
    pc = "manager" /\ Called("destroy", 0, destroy(World(stepManager, runtime)))

\* handleResult: initializeSteps(allSteps); skipToEnd()
HandleResult ==
    /\ pc = "manager"
    /\ \E allSteps \in StepLists \ {<<>>} :
          Called("handleResult", Len(allSteps),
                 skipToEnd(initializeSteps(World(stepManager, runtime), allSteps)))

\* an armed interval fires: its callback calls advancePlayback
TimerTick ==
    /\ pc \in {"manager", "playback"}
    /\ \E id \in runtime.timers :
          Called("tick", 0, advancePlayback(World(stepManager, runtime)))

InitManager ==
    /\ pc = "manager"
    /\ run = 1
    /\ input = parseGrammar({})
    /\ grammar = input
    /\ steps = <<>>
    /\ heap = <<>>
    /\ productiveVars = {}
    /\ cnfGraph = EmptyTable
    /\ local = <<>>
    /\ firstOutput = EmptyTable
    /\ stepManager = NewStepManager
    /\ runtime = NoRuntime

NextManager ==
    \/ CallSubscribe
    \/ CallInitializeSteps
    \/ CallNext
    \/ CallPrev
    \/ CallPlay
    \/ CallPause
    \/ CallSkipToEnd
    \/ CallReset
    \/ CallJumpToStep
    \/ CallSetPlaybackSpeed
    \/ CallDestroy
    \/ HandleResult
    \/ TimerTick

SpecManager == InitManager /\ [][NextManager]_vars

\* play() on an initialised manager, and after it nothing but the interval
InitPlayback ==
    /\ pc = "playback"
    /\ run = 1
    /\ input = parseGrammar({})
    /\ grammar = input
    /\ steps = <<>>
    /\ heap = <<>>
    /\ productiveVars = {}
    /\ cnfGraph = EmptyTable
    /\ local = <<>>
    /\ firstOutput = EmptyTable
    /\ stepManager \in
          {[NewStepManager EXCEPT !.steps = newSteps, !.currentIndex = index,
                                  !.playbackSpeed = speed, !.listeners = subscribed] :
              newSteps \in StepLists, index \in 0..MaxSteps, speed \in Speeds,
              subscribed \in SUBSET Listeners}
    /\ stepManager.currentIndex < Len(stepManager.steps)
          \/ stepManager.currentIndex = 0
    /\ runtime = NoRuntime

PlayOnce ==
    /\ pc = "playback"
    /\ runtime.op = "none"
    /\ Called("play", 0, play(World(stepManager, runtime)))

NextPlayback == PlayOnce \/ TimerTick

\* the runtime fires an armed interval again and again
SpecPlayback == InitPlayback /\ [][NextPlayback]_vars /\ WF_vars(TimerTick)

----------------------------------------------------------------------------
Init ==
    /\ pc = "productive"
    /\ run = 1
    /\ input \in InputGrammars
    /\ grammar = input
    /\ steps = <<>>
    /\ heap = <<>>
    /\ productiveVars = {}
    /\ cnfGraph = EmptyTable
    /\ local = <<>>
    /\ firstOutput = EmptyTable
    /\ stepManager = NewStepManager
    /\ runtime = NoRuntime

Next ==
    \/ IsProductive
    \/ CNFBuild
    \/ IntroStart
    \/ EliminateEpsilon
    \/ EpsilonComplete
    \/ UnitInit
    \/ UnitProcess
    \/ UnitFinish
    \/ IsolateLong
    \/ BinaryKaskadierung

Spec == Init /\ [][Next]_vars

----------------------------------------------------------------------------
(* A second run of buildAllSteps, on the grammar the first run produced *)

Rerun ==
    /\ pc = "done"
    /\ run = 1
    /\ run' = 2
    /\ grammar' = [startSymbol |-> grammar.startSymbol,
                   productions |-> cnfGraph,
                   nonTerminals |-> cnfGraph.keys]
    /\ steps' = <<>>
    /\ heap' = <<>>
    /\ productiveVars' = {}
    /\ cnfGraph' = EmptyTable
    /\ local' = <<>>
    /\ pc' = "productive"
    /\ UNCHANGED <<input, firstOutput, stepManager, runtime>>

NextRerun == Next \/ Rerun

SpecRerun == Init /\ [][NextRerun]_vars

----------------------------------------------------------------------------
(* generateRemoveEpsilonSteps called on its own: the stage is an exported   *)
(* function of (grammar, cnfGraph), and its caller chooses both             *)

\* the productions a grammar handed to the stage may be made of
Stage3Pool ==
    <<[lhs |-> "S", rhs |-> <<"a">>],
      [lhs |-> "S", rhs |-> <<"S", "S0">>],
      [lhs |-> "S", rhs |-> <<"a", "S0">>],
      [lhs |-> "S", rhs |-> <<"A">>],
      [lhs |-> "S", rhs |-> EpsWord],
      [lhs |-> "A", rhs |-> <<"a">>],
      [lhs |-> "A", rhs |-> <<"a", "S0">>],
      [lhs |-> "A", rhs |-> <<"S0">>]>>

Stage3LineOf(chosen, lhs) ==
    LET idx == SelectSeq([i \in 1..Len(Stage3Pool) |-> i],
                         LAMBDA i : i \in chosen /\ Stage3Pool[i].lhs = lhs)
    IN  [i \in 1..Len(idx) |-> Stage3Pool[idx[i]].rhs]

Stage3Grammar(chosen) ==
    LET keys == SelectSeq(<<"S", "A">>, LAMBDA l : Stage3LineOf(chosen, l) # <<>>)
    IN  [startSymbol |-> "S",
         productions |-> TableOf(keys, LAMBDA k : Stage3LineOf(chosen, k)),
         nonTerminals |-> keys]

Stage3Inputs ==
    {Stage3Grammar(chosen) : chosen \in
        {c \in SUBSET (1..Len(Stage3Pool)) : c # {} /\ Cardinality(c) <= MaxTotalProds}}

InitStage3 ==
    /\ pc = "eps-intro"
    /\ run = 1
    /\ input \in Stage3Inputs
    /\ grammar = input
    /\ steps = <<>>
    /\ heap = <<>>
    /\ productiveVars = {}
    /\ cnfGraph = input.productions
    /\ local = <<>>
    /\ firstOutput = EmptyTable
    /\ stepManager = NewStepManager
    /\ runtime = NoRuntime

NextStage3 ==
    \/ IntroStart
    \/ EliminateEpsilon
    \/ EpsilonComplete
    \/ UnitInit
    \/ UnitProcess
    \/ UnitFinish

SpecStage3 == InitStage3 /\ [][NextStage3]_vars

----------------------------------------------------------------------------
(* The two fixpoint loops, pass by pass: the while (true) loop of
   addFixpointSteps and the while (changed) loop of computeUnitClosure *)

\* one pass of the while (changed) loop: every variable adds the unit
\* targets among its own productions
unitClosurePass(prods, closure) ==
    [A \in Range(prods.keys) |->
        AppendAllUnique(closure[A],
            [i \in 1..Len(SelectSeq(prods.at[A], isUnit)) |->
                SelectSeq(prods.at[A], isUnit)[i][1]])]

InitLoops ==
    /\ pc = "fixpoint"
    /\ run = 1
    /\ input \in InputGrammars
    /\ grammar = input
    /\ steps = <<>>
    /\ heap = <<>>
    /\ productiveVars = {}
    /\ cnfGraph = EmptyTable
    /\ local = [productiveSet |->
                    addInitialProductiveSteps(input.productions, filteredNonTerminals(input)),
                passes |-> 0,
                closure |-> [A \in Range(input.productions.keys) |-> <<A>>],
                closurePasses |-> 0]
    /\ firstOutput = EmptyTable
    /\ stepManager = NewStepManager
    /\ runtime = NoRuntime

\* one turn of while (true): a pass, then the test for the fixpoint
FixpointPass ==
    /\ pc = "fixpoint"
    /\ LET after == processIterationVariables(grammar.productions,
                        filteredNonTerminals(grammar), local.productiveSet, 1)
       IN  /\ local' = [local EXCEPT !.productiveSet = after, !.passes = @ + 1]
           /\ pc' = IF after = local.productiveSet THEN "unit-closure" ELSE "fixpoint"
    /\ UNCHANGED <<run, input, grammar, steps, heap, productiveVars, cnfGraph,
                   firstOutput, stepManager, runtime>>

\* one turn of while (changed)
UnitClosurePass ==
    /\ pc = "unit-closure"
    /\ LET after == unitClosurePass(grammar.productions, local.closure)
       IN  /\ local' = [local EXCEPT !.closure = after, !.closurePasses = @ + 1]
           /\ pc' = IF after = local.closure THEN "loops-done" ELSE "unit-closure"
    /\ UNCHANGED <<run, input, grammar, steps, heap, productiveVars, cnfGraph,
                   firstOutput, stepManager, runtime>>

NextLoops == FixpointPass \/ UnitClosurePass

\* a loop that can take a turn takes it
SpecLoops == InitLoops /\ [][NextLoops]_vars /\ WF_vars(NextLoops)

----------------------------------------------------------------------------
(* The two allocateNewVariable functions, called on sets of used names *)

AllocInputs ==
    {U \cup D : U \in {Letters \ T : T \in SUBSET {"Z", "Y", "A"}}
                      \cup SUBSET {"S", "S0", "Z", "Y"},
                D \in SUBSET {"D0", "D1"}}

InitAlloc ==
    /\ pc = "alloc"
    /\ run = 1
    /\ input = parseGrammar({})
    /\ grammar = input
    /\ steps = <<>>
    /\ heap = <<>>
    /\ productiveVars = {}
    /\ cnfGraph = EmptyTable
    /\ local \in {[usedVars |-> U, before |-> U, newVar |-> "none", by |-> "none"] :
                    U \in AllocInputs}
    /\ firstOutput = EmptyTable
    /\ stepManager = NewStepManager
    /\ runtime = NoRuntime

\* the model's fallback names are not used up
CanAllocate == \E i \in 1..Len(FallbackNames) : FallbackNames[i] \notin local.usedVars

\* const newVar = allocateNewVariable(usedVars); usedVars.add(newVar)
AllocateIsolate ==
    /\ pc = "alloc"
    /\ CanAllocate
    /\ LET newVar == allocateNewVariableIsolate(local.usedVars)
       IN  local' = [usedVars |-> local.usedVars \cup {newVar},
                     before |-> local.usedVars, newVar |-> newVar, by |-> "isolate"]
    /\ UNCHANGED <<pc, run, input, grammar, steps, heap, productiveVars, cnfGraph,
                   firstOutput, stepManager, runtime>>

AllocateBinary ==
    /\ pc = "alloc"
    /\ CanAllocate
    /\ LET newVar == allocateNewVariableBinary(local.usedVars)
       IN  local' = [usedVars |-> local.usedVars \cup {newVar},
                     before |-> local.usedVars, newVar |-> newVar, by |-> "binary"]
    /\ UNCHANGED <<pc, run, input, grammar, steps, heap, productiveVars, cnfGraph,
                   firstOutput, stepManager, runtime>>

NextAlloc == AllocateIsolate \/ AllocateBinary

SpecAlloc == InitAlloc /\ [][NextAlloc]_vars

----------------------------------------------------------------------------
(* Reference notions the properties compare the program with *)

\* the least set P of variables with a production all of whose symbols are
\* terminals, epsilon or members of P
RECURSIVE LeastProductiveFrom(_, _)
LeastProductiveFrom(t, P) ==
    LET Q == P \cup {A \in Range(t.keys) :
                \E i \in 1..Len(t.at[A]) : \A j \in 1..Len(t.at[A][i]) :
                    \/ isTerminal(t.at[A][i][j])
                    \/ t.at[A][i][j] = EpsilonChar
                    \/ t.at[A][i][j] \in P}
    IN  IF Q = P THEN P ELSE Eager(Q, LAMBDA grown : LeastProductiveFrom(t, grown))

LeastProductive(t) == LeastProductiveFrom(t, {})

\* the productions of A whose symbols all derive a terminal string
ProductiveBodies(t, A) ==
    LET P == LeastProductive(t)
    IN  {t.at[A][i] : i \in {k \in 1..Len(t.at[A]) :
            \A j \in 1..Len(t.at[A][k]) :
                \/ isTerminal(t.at[A][k][j])
                \/ t.at[A][k][j] = EpsilonChar
                \/ t.at[A][k][j] \in P}}

\* the variables that derive a non-empty terminal string
RECURSIVE DerivesNonEmptyFrom(_, _)
DerivesNonEmptyFrom(t, N) ==
    LET Q == N \cup {A \in LeastProductive(t) :
                \E p \in ProductiveBodies(t, A) : \E j \in 1..Len(p) :
                    isTerminal(p[j]) \/ p[j] \in N}
    IN  IF Q = N THEN N ELSE Eager(Q, LAMBDA grown : DerivesNonEmptyFrom(t, grown))

\* the productive variables a derivation from the set R can reach
RECURSIVE ReachableFrom(_, _)
ReachableFrom(t, R) ==
    LET Q == R \cup {B \in LeastProductive(t) :
                \E A \in R : \E p \in ProductiveBodies(t, A) : B \in Range(p)}
    IN  IF Q = R THEN R ELSE Eager(Q, LAMBDA grown : ReachableFrom(t, grown))

\* the start symbol derives infinitely many terminal strings: a variable in
\* use derives a sentential form that holds it again beside a non-empty part
GroundInfinite(t, start) ==
    LET N == DerivesNonEmptyFrom(t, {})
        U == IF start \in LeastProductive(t) THEN ReachableFrom(t, {start}) ELSE {}
    IN  \E A \in U : \E p \in ProductiveBodies(t, A) : \E i \in 1..Len(p) :
            /\ p[i] \in U
            /\ A \in ReachableFrom(t, {p[i]})
            /\ \E j \in 1..Len(p) : j # i /\ (isTerminal(p[j]) \/ p[j] \in N)

\* the step with this id (the ids used here occur once in a run)
StepWithId(id) == steps[CHOOSE i \in 1..Len(steps) : steps[i].id = id]

\* a snapshot as it was when its step was pushed
AsPushed(snapshot) == [keys |-> snapshot.keys, at |-> snapshot.val]

HasStep(id) == \E i \in 1..Len(steps) : steps[i].id = id

\* the body is one terminal, or two variables other than the start symbol,
\* or - under the start symbol - epsilon
CNFBody(A, prod, start) ==
    LET symbols == parseSymbols(prod)
    IN  \/ Len(symbols) = 1 /\ isTerminal(symbols[1])
        \/ /\ Len(symbols) = 2
           /\ isNonTerminal(symbols[1]) /\ symbols[1] # start
           /\ isNonTerminal(symbols[2]) /\ symbols[2] # start
        \/ A = start /\ isEpsilon(prod)

CNFShape(t, start) ==
    \A A \in Range(t.keys) : \A i \in 1..Len(t.at[A]) : CNFBody(A, t.at[A][i], start)

NonEmptyInput == input.startSymbol \in LeastProductive(input.productions)

\* the terminal strings of at most MaxWordLen letters that the symbols derive,
\* when F holds the strings already known for each variable
RECURSIVE WordsOf(_, _)
WordsOf(F, symbols) ==
    IF symbols = <<>> THEN {<<>>}
    ELSE LET s == Head(symbols)
             first == IF isTerminal(s) THEN {<<s>>}
                      ELSE IF s = EpsilonChar THEN {<<>>}
                      ELSE IF s \in DOMAIN F THEN F[s]
                      ELSE {}
             rest == WordsOf(F, Tail(symbols))
         IN  {w \in {u \o v : u \in first, v \in rest} : Len(w) <= MaxWordLen}

RECURSIVE LanguageFrom(_, _)
LanguageFrom(t, F) ==
    LET G == [A \in DOMAIN t.at |->
                F[A] \cup UNION {WordsOf(F, parseSymbols(t.at[A][i])) :
                                    i \in 1..Len(t.at[A])}]
    IN  IF G = F THEN F ELSE Eager(G, LAMBDA grown : LanguageFrom(t, grown))

\* the terminal strings of at most MaxWordLen letters that start derives
Language(t, start) ==
    IF Has(t, start) THEN LanguageFrom(t, [A \in DOMAIN t.at |-> {}])[start] ELSE {}

----------------------------------------------------------------------------
(* The properties *)

\* C1: for an input grammar with a non-empty language, every production of
\* the final grammar is a single terminal, or two nonterminals neither of
\* which is S0, or - under S0 only - epsilon.
C1_FinalGrammarInCNF ==
    (pc = "done" /\ NonEmptyInput) => CNFShape(cnfGraph, newStartSymbol)

\* C2: in the final grammar S0 occurs in no production body of a nonterminal
\* other than S0.
C2_StartSymbolNotOnRHS ==
    pc = "done" =>
        \A A \in Range(cnfGraph.keys) \ {newStartSymbol} :
            \A i \in 1..Len(cnfGraph.at[A]) :
                ~includes(parseSymbols(cnfGraph.at[A][i]), newStartSymbol)

\* C2's case: S0 has a production S0 -> t, and terminal isolation has put a
\* variable V with V -> t into a production of another nonterminal.
C2_Witness ==
    /\ pc = "done"
    /\ \E t \in LowerLetters :
          /\ includes(cnfGraph.at[newStartSymbol], <<t>>)
          /\ LET isolated == AsPushed(StepWithId("cnf-long-init").graph)
             IN  \E A \in Range(isolated.keys) \ {newStartSymbol} :
                    \E i \in 1..Len(isolated.at[A]) :
                        \E j \in 1..Len(isolated.at[A][i]) :
                            LET V == StepWithId("cnf-long-complete").graph.val[A][i][j]
                            IN  /\ isolated.at[A][i][j] = t
                                /\ Len(isolated.at[A][i]) >= 2
                                /\ Has(cnfGraph, V)
                                /\ includes(cnfGraph.at[V], <<t>>)

\* C3: the isEmptyLanguage flag of the 'productive-result' step is true iff
\* the start symbol is not in the least set of productive nonterminals.
C3_EmptinessFlag ==
    HasStep("productive-result") =>
        (StepWithId("productive-result").isEmptyLanguage
            = (input.startSymbol \notin LeastProductive(input.productions)))

\* C3's case: the flag says non-empty for a start symbol that only the
\* fixpoint passes, not the initial pass, find productive.
C3_Witness ==
    /\ HasStep("productive-result")
    /\ StepWithId("productive-result").isEmptyLanguage = FALSE
    /\ input.startSymbol \notin
          addInitialProductiveSteps(input.productions, filteredNonTerminals(input))

\* C4: when the 'productive-result' step reports the language empty, no step
\* of a later stage follows it in the trace.
C4_PipelineStopsWhenEmpty ==
    \A i \in 1..Len(steps) :
        (steps[i].id = "productive-result" /\ steps[i].isEmptyLanguage = TRUE)
            => i = Len(steps)

\* C5: for an input grammar with a non-empty language, the isInfinite flag of
\* the 'cnf-binary-result' step is true iff the start symbol of the input
\* derives infinitely many terminal strings.
C5_InfinitenessFlag ==
    (pc = "done" /\ NonEmptyInput) =>
        (StepWithId("cnf-binary-result").isInfinite
            = GroundInfinite(input.productions, input.startSymbol))

\* C6: in the 'cnf-eps-complete' snapshot and in every later snapshot, no
\* nonterminal other than S0 has an epsilon production (for a grammar the
\* productivity stage found non-empty).
C6_OnlyStartHasEpsilon ==
    (HasStep("cnf-eps-complete") /\ NonEmptyInput) =>
        \A j \in 1..Len(steps) :
            (\E i \in 1..j : steps[i].id = "cnf-eps-complete") =>
                \A A \in Range(steps[j].graph.keys) \ {newStartSymbol} :
                    /\ ~\E n \in 1..Len(steps[j].graph.val[A]) :
                          isEpsilon(steps[j].graph.val[A][n])
                    /\ ~\E n \in 1..Len(steps[j].base.val[A]) :
                          isEpsilon(steps[j].base.val[A][n])

\* C7: after the binary cascader every production has at most 2 symbols
\* (S0 -> epsilon aside), and each production A -> X1...Xm with m >= 3 of the
\* terminal-isolated grammar is no production of A any more, while
\* A -> X1 H1 with a helper H1 is.
C7_CascadeLeavesShortProductions ==
    pc = "done" =>
        LET before == AsPushed(StepWithId("cnf-binary-init").graph)
            after == AsPushed(StepWithId("cnf-binary-complete").graph)
        IN  /\ \A A \in Range(after.keys) : \A i \in 1..Len(after.at[A]) :
                  \/ Len(parseSymbols(after.at[A][i])) <= 2
                  \/ A = newStartSymbol /\ isEpsilon(after.at[A][i])
            /\ \A A \in Range(before.keys) : \A i \in 1..Len(before.at[A]) :
                  LET symbols == parseSymbols(before.at[A][i])
                  IN  (~isEpsilon(before.at[A][i]) /\ Len(symbols) >= 3) =>
                        /\ ~includes(after.at[A], before.at[A][i])
                        /\ \E H \in Range(after.keys) \ Range(before.keys) :
                              includes(after.at[A], <<symbols[1], H>>)

\* the sequence Z, Y, X, ..., A, D0, D1, D2, ...
AllocationOrder == candidates \o FallbackNames

\* C8: each call of an allocator returns the first name of Z, Y, ..., A, D0,
\* D1, ... that is not among the used names.
C8_AllocatorReturnsFirstUnused ==
    (pc = "alloc" /\ local.by # "none") =>
        \E i \in 1..Len(AllocationOrder) :
            /\ local.newVar = AllocationOrder[i]
            /\ local.newVar \notin local.before
            /\ \A j \in 1..(i - 1) : AllocationOrder[j] \in local.before

\* C9: a second run on the CNF grammar of the first run ends with a grammar
\* in CNF shape that generates the same terminal strings as the first
\* output.
C9_RerunKeepsLanguage ==
    (pc = "done" /\ run = 2 /\ CNFShape(firstOutput, newStartSymbol)) =>
        /\ CNFShape(cnfGraph, newStartSymbol)
        /\ Language(cnfGraph, newStartSymbol) = Language(firstOutput, newStartSymbol)

\* C10: the snapshots of an emitted step do not change afterwards: read now,
\* they show the production lists they showed when the step was pushed.
C10_SnapshotsAreStable ==
    \A i \in 1..Len(steps) :
        /\ SnapshotNow(steps[i].graph) = steps[i].graph.val
        /\ SnapshotNow(steps[i].base) = steps[i].base.val

\* C11: no stage modifies the grammar object handed to it: the start symbol
\* and the productions table of the `parsed` object stay what they were when
\* buildAllSteps received it.
C11_StagesLeaveGrammarUnchanged ==
    /\ grammar.startSymbol = input.startSymbol
    /\ grammar.productions = input.productions

\* S0 stands in a production body of another nonterminal of g
startSymbolInOtherBody(g) ==
    \E A \in Range(g.keys) \ {newStartSymbol} :
        \E i \in 1..Len(g.at[A]) : includes(parseSymbols3(g.at[A][i]), newStartSymbol)

SingleRuleGrammar == parseGrammar({1})

\* the flags the pipeline reports for S -> a: not empty, finite
SingleRuleFlags ==
    /\ StepWithId("productive-result").isEmptyLanguage = FALSE
    /\ StepWithId("cnf-binary-result").isInfinite = FALSE

LongRuleGrammar == parseGrammar({19})

\* the terminal string that symbol s derives when every variable is replaced
\* by its first production, at most n levels deep
RECURSIVE Yield(_, _, _)
Yield(t, s, n) ==
    IF isTerminal(s) THEN <<s>>
    ELSE IF n = 0 \/ Get(t, s) = <<>> THEN <<"?">>
    ELSE LET p == parseSymbols(t.at[s][1])
         IN  Flatten([j \in 1..Len(p) |-> Yield(t, p[j], n - 1)])

\* C14: for S -> abcde terminal isolation introduces 5 helper variables, one
\* per distinct terminal; the binary cascade introduces 3 helper variables;
\* the final grammar has exactly 4 two-symbol productions, every variable has
\* one production of at most 2 symbols, and the start symbol derives abcde.
C14_LongRule ==
    (pc = "done" /\ input = LongRuleGrammar) =>
        LET isolated == AsPushed(StepWithId("cnf-long-complete").graph)
            before == AsPushed(StepWithId("cnf-long-init").graph)
            helpers == Range(isolated.keys) \ Range(before.keys)
            chained == Range(cnfGraph.keys) \ Range(isolated.keys)
            binary == {A \in Range(cnfGraph.keys) : Len(parseSymbols(cnfGraph.at[A][1])) = 2}
        IN  /\ Cardinality(helpers) = 5
            /\ {isolated.at[V] : V \in helpers}
                  = {<<<<t>>>> : t \in {"a", "b", "c", "d", "e"}}
            /\ Cardinality(chained) = 3
            /\ \A A \in Range(cnfGraph.keys) :
                  Len(cnfGraph.at[A]) = 1 /\ Len(parseSymbols(cnfGraph.at[A][1])) <= 2
            /\ Cardinality(binary) = 4
            /\ Yield(cnfGraph, grammar.startSymbol, Len(cnfGraph.keys))
                  = <<"a", "b", "c", "d", "e">>

\* C14's case: the pipeline has run to its end on S -> abcde, and both the
\* isolator and the cascader have added variables
C14_Witness ==
    /\ pc = "done"
    /\ input = LongRuleGrammar
    /\ HasStep("cnf-long-create")
    /\ HasStep("cnf-binary-helpers")

\* the variables reachable from the set C by unit productions of t
RECURSIVE UnitClosureFrom(_, _)
UnitClosureFrom(t, C) ==
    LET D == C \cup {t.at[A][i][1] : <<A, i>> \in
                {<<A, i>> \in (C \cap Range(t.keys)) \X (1..8) :
                    i <= Len(t.at[A]) /\ isUnit(t.at[A][i])}}
    IN  IF D = C THEN C ELSE Eager(D, LAMBDA grown : UnitClosureFrom(t, grown))

\* C15: when unit elimination has deleted the unit productions (before the
\* start symbol is protected and unreachable variables are dropped), every
\* nonterminal A holds every non-unit production of every nonterminal in its
\* reflexive-transitive unit closure, productions containing S0 excepted
\* when A is not S0.
C15_UnitClosureIsTransitive ==
    (pc = "isolate" /\ "unitFiltered" \in DOMAIN local /\ HasStep("cnf-unit-init")) =>
        LET entry == AsPushed(StepWithId("cnf-unit-init").graph)
            result == local.unitFiltered
        IN  \A A \in Range(entry.keys) :
                \A B \in UnitClosureFrom(entry, {A}) \cap Range(entry.keys) :
                    \A i \in 1..Len(entry.at[B]) :
                        LET p == entry.at[B][i]
                        IN  (/\ ~isUnit(p)
                             /\ ~(A # newStartSymbol /\ includes(parseSymbols3(p), newStartSymbol)))
                                => includes(result.at[A], p)

\* the least set N of variables with an epsilon production or a production
\* made only of variables of N
RECURSIVE NullableFrom(_, _)
NullableFrom(t, N) ==
    LET M == N \cup {A \in Range(t.keys) :
                \E i \in 1..Len(t.at[A]) :
                    \/ t.at[A][i] = EpsWord
                    \/ /\ t.at[A][i] # <<>>
                       /\ \A j \in 1..Len(t.at[A][i]) : t.at[A][i][j] \in N}
    IN  IF M = N THEN N ELSE Eager(M, LAMBDA grown : NullableFrom(t, grown))

\* production p without the positions in D
WithoutPositions(p, D) ==
    LET kept == SelectSeq([i \in 1..Len(p) |-> i], LAMBDA i : i \notin D)
    IN  [n \in 1..Len(kept) |-> p[kept[n]]]

\* C16: after epsilon elimination every nonterminal A has, for each
\* production p it had on entry and each non-empty set of positions of p
\* that hold a nullable nonterminal (least fixpoint), the variant of p
\* without those positions, unless the variant is empty; and no epsilon
\* production appears that was not there on entry.
C16_NullableVariantsAreAdded ==
    HasStep("cnf-eps-complete") =>
        LET entry == AsPushed(StepWithId("cnf-eps-intro-start").graph)
            result == AsPushed(StepWithId("cnf-eps-complete").graph)
            nullable == NullableFrom(entry, {})
        IN  \A A \in Range(entry.keys) :
                /\ \A i \in 1..Len(entry.at[A]) :
                      LET p == entry.at[A][i]
                          positions == {j \in 1..Len(p) : p[j] \in nullable}
                      IN  p # EpsWord =>
                            \A D \in (SUBSET positions) \ {{}} :
                                \/ WithoutPositions(p, D) = <<>>
                                \/ includes(result.at[A], WithoutPositions(p, D))
                /\ ~includes(result.at[A], <<>>)
                /\ includes(result.at[A], EpsWord) => includes(entry.at[A], EpsWord)

\* the variables reachable from the set R through productions all of whose
\* nonterminals are in P
RECURSIVE ReachableWithin(_, _, _)
ReachableWithin(t, P, R) ==
    LET usable(p) == \A j \in 1..Len(p) : isNonTerminal(p[j]) => p[j] \in P
        Q == R \cup {p[j] : <<p, j>> \in
                {<<p, j>> \in (UNION {Range(Get(t, A)) : A \in R}) \X (1..8) :
                    j <= Len(p) /\ usable(p) /\ isNonTerminal(p[j])}}
    IN  IF Q = R THEN R ELSE Eager(Q, LAMBDA grown : ReachableWithin(t, P, grown))

\* C17: the set the productivity/reachability stage retains is the
\* intersection of the least productive set P with the set of nonterminals
\* reachable from the start symbol through productions all of whose
\* nonterminals are in P.
C17_RetainedIsProductiveAndReachable ==
    (run = 1 /\ HasStep("productive-result")) =>
        LET P == LeastProductive(input.productions)
        IN  productiveVars
                = P \cap ReachableWithin(input.productions, P, {input.startSymbol})

\* C17's case: a productive nonterminal X stands in a production of a
\* retained nonterminal beside a non-productive one, and X is not retained.
C17_Witness ==
    /\ run = 1
    /\ HasStep("productive-result")
    /\ LET t == input.productions
           P == LeastProductive(t)
       IN  \E X \in P \ productiveVars : \E A \in productiveVars :
               \E i \in 1..Len(t.at[A]) :
                   /\ includes(t.at[A][i], X)
                   /\ \E j \in 1..Len(t.at[A][i]) :
                         isNonTerminal(t.at[A][i][j]) /\ t.at[A][i][j] \notin P

\* the grammar object as buildAllSteps received it in this run
ReceivedGrammar ==
    IF run = 1 THEN input
    ELSE [startSymbol |-> newStartSymbol, productions |-> firstOutput,
          nonTerminals |-> firstOutput.keys]

\* the productions generateRemoveEpsilonSteps started from in this run:
\* stages 1 and 2 leave the grammar object and cnfGraph as they were
IncomingToEpsilonStage ==
    IF cnfGraph.keys # <<>> THEN cnfGraph ELSE ReceivedGrammar.productions

\* C18: when S0 has been introduced the grammar's start symbol is S0, the
\* productions of S0 are the old start symbol, plus epsilon exactly when the
\* old start symbol had an epsilon production, and every nonterminal of the
\* incoming grammar still has every production it had.
C18_IntroducingStartKeepsRules ==
    (pc = "eps-eliminate" /\ HasStep("cnf-eps-intro-start")) =>
        LET incoming == IncomingToEpsilonStage
            oldStart == ReceivedGrammar.startSymbol
            result == AsPushed(StepWithId("cnf-eps-intro-start").graph)
            hadEpsilon == \E i \in 1..Len(Get(incoming, oldStart)) :
                              \/ incoming.at[oldStart][i] = EpsWord
                              \/ isEpsilon(incoming.at[oldStart][i])
        IN  /\ grammar.startSymbol = newStartSymbol
            /\ \/ ~hadEpsilon /\ result.at[newStartSymbol] = <<<<oldStart>>>>
               \/ hadEpsilon /\ result.at[newStartSymbol] \in
                     {<<<<oldStart>>, EpsWord>>, <<<<oldStart>>, <<EpsilonChar>>>>}
            /\ \A A \in Range(incoming.keys) : \A i \in 1..Len(incoming.at[A]) :
                  includes(Get(result, A), incoming.at[A][i])

\* C19: for every terminal t that the terminal isolator replaces inside a
\* production of two or more symbols, the nonterminal V put in its place is
\* not the start symbol, and the production set of V in the isolator's
\* output is exactly {t}.
C19_IsolationVariableDerivesOnlyItsTerminal ==
    HasStep("cnf-long-complete") =>
        LET before == AsPushed(StepWithId("cnf-long-init").graph)
            after == AsPushed(StepWithId("cnf-long-complete").graph)
        IN  \A A \in Range(before.keys) : \A i \in 1..Len(before.at[A]) :
                LET p == before.at[A][i]
                IN  (~isEpsilon(p) /\ Len(parseSymbols(p)) >= 2) =>
                        \A j \in 1..Len(p) :
                            isTerminal(p[j]) =>
                                LET V == after.at[A][i][j]
                                IN  /\ isNonTerminal(V)
                                    /\ V # grammar.startSymbol
                                    /\ Get(after, V) = <<<<p[j]>>>>

\* no production list of the snapshot holds a production twice
NoDuplicates(at) ==
    \A A \in DOMAIN at : \A i, j \in 1..Len(at[A]) : at[A][i] = at[A][j] => i = j

\* C20: in every grammar snapshot of the stages from the CNF-base builder to
\* the binary cascader no left-hand side lists a production twice.
C20_NoDuplicateProductions ==
    \A n \in 1..Len(steps) :
        steps[n].stage # "result" =>
            /\ NoDuplicates(steps[n].graph.val)
            /\ NoDuplicates(steps[n].base.val)

\* the ids of the steps that carry the grammar a stage hands on
StageResultIds ==
    {"cnf-complete", "cnf-eps-complete", "cnf-unit-complete",
     "cnf-long-complete", "cnf-binary-complete"}

\* the nonterminals of the production bodies that are no key of the table
Dangling(t) == {x \in BodySymbols(t) : isNonTerminal(x) /\ ~Has(t, x)}

\* C21: in the grammar produced by every stage (CNF base, epsilon
\* elimination, unit elimination with its reachability trim, terminal
\* isolation, binary cascade) every nonterminal that occurs in a production
\* body is a key of the rules table.
C21_NoDanglingNonTerminal ==
    \A n \in 1..Len(steps) :
        steps[n].id \in StageResultIds => Dangling(AsPushed(steps[n].graph)) = {}

\* the nonterminals of a table: its keys and those in its production bodies
NonTerminalsOf(t) == Range(t.keys) \cup {x \in BodySymbols(t) : isNonTerminal(x)}

\* C22, in the pipeline runs of the bounded inputs: every helper name
\* allocated by the terminal isolator or by the binary cascader differs, when
\* it is allocated, from every nonterminal of the working grammar (key or
\* body symbol) and from every helper allocated earlier in the two stages of
\* the run.
C22_HelperNamesAreFreshInRun ==
    (pc = "done" /\ "cascaded" \in DOMAIN local) =>
        LET allocated == local.isolated \o local.cascaded
        IN  \A n \in 1..Len(allocated) :
                /\ allocated[n].newVar \notin NonTerminalsOf(allocated[n].working)
                /\ \A k \in 1..(n - 1) : allocated[k].newVar # allocated[n].newVar

\* C22: a name returned by the allocator of the terminal isolator or of the
\* binary cascader is none of the used names it was called with, which hold
\* the keys of the working grammar and every helper allocated before.
C22_AllocatedNameIsUnused ==
    (pc = "alloc" /\ local.by # "none") => local.newVar \notin local.before

\* the bodies of three or more symbols of a table
LongBodies(t) ==
    {t.at[A][i] : <<A, i>> \in
        {<<A, i>> \in Range(t.keys) \X (1..8) :
            /\ i <= Len(t.at[A])
            /\ ~isEpsilon(t.at[A][i])
            /\ Len(parseSymbols(t.at[A][i])) >= 3}}

RECURSIVE SumOfHelpers(_)
SumOfHelpers(bodies) ==
    IF bodies = {} THEN 0
    ELSE LET p == CHOOSE p \in bodies : TRUE
         IN  (Len(parseSymbols(p)) - 2) + SumOfHelpers(bodies \ {p})

\* H is the j-th helper of the body: its only production is
\* X(j+1) H(j+1), the one of the last helper X(m-1) Xm
RECURSIVE ChainFrom(_, _, _, _, _)
ChainFrom(t, helpers, H, symbols, j) ==
    LET m == Len(symbols)
    IN  /\ H \in helpers
        /\ Has(t, H)
        /\ Len(t.at[H]) = 1
        /\ IF j = m - 2 THEN t.at[H][1] = <<symbols[m - 1], symbols[m]>>
           ELSE /\ Len(t.at[H][1]) = 2
                /\ t.at[H][1][1] = symbols[j + 1]
                /\ ChainFrom(t, helpers, t.at[H][1][2], symbols, j + 1)

\* the number of helpers the cascader created is the sum of m-2 over the
\* distinct long bodies of its input
HelperCountIsMinimal ==
    Len(local.cascaded) =
        SumOfHelpers(LongBodies(AsPushed(StepWithId("cnf-binary-init").graph)))

\* every helper ends with exactly one production
HelpersHaveOneProduction ==
    \A n \in 1..Len(local.cascaded) : Len(Get(cnfGraph, local.cascaded[n].newVar)) = 1

\* every long body has a chain of helpers, and the left-hand sides whose
\* production starts such a chain all name the same first helper
LongBodiesShareHelpers ==
    LET before == AsPushed(StepWithId("cnf-binary-init").graph)
        helpers == {local.cascaded[n].newVar : n \in 1..Len(local.cascaded)}
        chains(p) == {H \in helpers : ChainFrom(cnfGraph, helpers, H, parseSymbols(p), 1)}
        named(p) == {H \in chains(p) : \E A \in Range(cnfGraph.keys) :
                        includes(cnfGraph.at[A], <<parseSymbols(p)[1], H>>)}
    IN  \A p \in LongBodies(before) :
            /\ chains(p) # {}
            /\ Cardinality(named(p)) <= 1

\* C23: in the binary cascader two left-hand sides with the same body of
\* length m >= 3 share the same m-2 helpers: the number of helpers created is
\* the sum of m-2 over the distinct long bodies of the input, and every helper
\* ends with exactly one production, H(j) -> X(j+1) H(j+1) and the last one
\* H(m-2) -> X(m-1) Xm.
C23_LongBodiesShareHelpers ==
    (pc = "done" /\ "cascaded" \in DOMAIN local) =>
        /\ HelperCountIsMinimal
        /\ HelpersHaveOneProduction
        /\ LongBodiesShareHelpers

\* two left-hand sides had the same long body, and the cascader created
\* helpers for it
C23_Witness ==
    /\ pc = "done"
    /\ "cascaded" \in DOMAIN local
    /\ local.cascaded # <<>>
    /\ LET before == AsPushed(StepWithId("cnf-binary-init").graph)
       IN  \E p \in LongBodies(before) : \E A, B \in Range(before.keys) :
              A # B /\ includes(before.at[A], p) /\ includes(before.at[B], p)

\* the keys that occur in a production body of A
DependsOn(t, A) ==
    {B \in Range(t.keys) :
        \E i \in 1..Len(t.at[A]) : \E j \in 1..Len(t.at[A][i]) : t.at[A][i][j] = B}

\* the keys to which a path of the dependency graph leads from one of R
RECURSIVE DescendantsFrom(_, _)
DescendantsFrom(t, R) ==
    LET grown == R \cup UNION {DependsOn(t, B) : B \in R}
    IN  IF grown = R THEN R ELSE DescendantsFrom(t, grown)

HasDirectedCycle(t) ==
    \E A \in Range(t.keys) : A \in DescendantsFrom(t, DependsOn(t, A))

\* C24: detectCycleWithSteps returns hasCycle = true if and only if the
\* dependency graph of the rules table it is given (nodes: the keys, an edge
\* A -> B for every key B in a production body of A, self-loops included) has
\* a directed cycle.
C24_CycleDetectionIsExact ==
    HasStep("cnf-binary-result") =>
        LET given == AsPushed(StepWithId("cnf-binary-complete").graph)
        IN  StepWithId("cnf-binary-result").isInfinite = HasDirectedCycle(given)

\* the search reported a cycle after it had finished (backtracked from)
\* other nodes
C24_Witness ==
    /\ HasStep("cnf-binary-result")
    /\ StepWithId("cnf-binary-result").isInfinite = TRUE
    /\ includes(detectCycleWithSteps(cnfGraph).dfsSteps, "backtrack")

\* the productivity loop has made at most |NonTerminals| + 1 passes
PassesAreBounded ==
    pc \in {"fixpoint", "unit-closure", "loops-done"} =>
        local.passes <= Len(filteredNonTerminals(grammar)) + 1

\* the productive set only grows, and the pass that ends the loop adds nothing
PassesOnlyGrow ==
    pc = "fixpoint" =>
        /\ local.productiveSet \subseteq local'.productiveSet
        /\ pc' # "fixpoint" => local'.productiveSet = local.productiveSet

\* C25: the productivity fixpoint loop and the unit-closure loop terminate:
\* the productive set only grows from pass to pass, the productivity loop
\* ends after at most |NonTerminals| + 1 passes, the last pass adding nothing,
\* and both loops come to their end.
C25_FixpointLoopsTerminate ==
    /\ []PassesAreBounded
    /\ [][PassesOnlyGrow]_vars
    /\ <>(pc = "loops-done")

\* both loops ended, the productivity loop after passes that added variables
C25_Witness ==
    /\ pc = "loops-done"
    /\ local.passes >= 3
    /\ local.closurePasses = 2
    /\ local.passes = Len(filteredNonTerminals(grammar))

\* C26: a production that the productivity analyzer accepts as epsilon
\* (isEpsilon) is treated as epsilon by the later stages of the run; the
\* first of them, the CNF-base builder, keeps it as a production of its
\* variable instead of dropping it as invalid.
C26_StagesAgreeOnEpsilon ==
    (pc = "eps-intro" /\ HasStep("cnf-complete")) =>
        LET base == AsPushed(StepWithId("cnf-complete").graph)
        IN  \A A \in productiveVars :
                \A i \in 1..Len(Get(grammar.productions, A)) :
                    isEpsilon(Get(grammar.productions, A)[i]) =>
                        includes(Get(base, A), Get(grammar.productions, A)[i])

\* currentIndex is 0 when there are no steps, and an index of steps otherwise
IndexInRange ==
    pc = "manager" =>
        IF stepManager.steps = <<>> THEN stepManager.currentIndex = 0
        ELSE /\ 0 <= stepManager.currentIndex
             /\ stepManager.currentIndex <= Len(stepManager.steps) - 1

\* the call that was made is one that the guards of next, prev and
\* jumpToStep turn away
TurnedAway ==
    \/ runtime'.op = "next" /\ stepManager.currentIndex >= Len(stepManager.steps) - 1
    \/ runtime'.op = "prev" /\ stepManager.currentIndex = 0
    \/ /\ runtime'.op = "jumpToStep"
       /\ runtime'.arg < 0 \/ runtime'.arg >= Len(stepManager.steps)

TurnedAwayCallsChangeNothing ==
    TurnedAway =>
        /\ stepManager'.currentIndex = stepManager.currentIndex
        /\ stepManager'.isPlaying = stepManager.isPlaying
        /\ runtime'.delivered = <<>>

\* C27: in every reachable state of StepManager currentIndex is 0 when steps
\* is empty and otherwise 0 <= currentIndex <= steps.length - 1; next at the
\* last step, prev at step 0 and jumpToStep with an index out of range leave
\* currentIndex and isPlaying unchanged and notify no listener.
C27_CurrentIndexStaysInRange ==
    /\ []IndexInRange
    /\ [][TurnedAwayCallsChangeNothing]_vars

\* next was called at the last of several steps while a listener was
\* subscribed and playback was running, and nothing was delivered
C27_Witness ==
    /\ pc = "manager"
    /\ runtime.op = "next"
    /\ Len(stepManager.steps) >= 2
    /\ stepManager.currentIndex = Len(stepManager.steps) - 1
    /\ stepManager.listeners # {}
    /\ stepManager.isPlaying
    /\ runtime.delivered = <<>>

\* a tick advances by exactly one step, or - at the last step - stops
TickAdvancesOrStops ==
    runtime'.op = "tick" =>
        IF canAdvance(stepManager)
        THEN /\ stepManager'.currentIndex = stepManager.currentIndex + 1
             /\ stepManager'.isPlaying
        ELSE /\ stepManager'.currentIndex = stepManager.currentIndex
             /\ ~stepManager'.isPlaying
             /\ stepManager'.playbackInterval = null
             /\ runtime'.timers = {}

PlaybackStopped ==
    /\ ~stepManager.isPlaying
    /\ stepManager.playbackInterval = null
    /\ runtime.timers = {}
    /\ stepManager.currentIndex = Len(stepManager.steps) - 1

\* C28: after play() succeeds and no other operation is called, under fair
\* delivery of the timer ticks currentIndex increases by exactly one per tick
\* until it is steps.length - 1, and the following tick sets isPlaying to
\* false and clears the timer: playback skips no step and comes to an end.
C28_PlaybackRunsToTheEnd ==
    /\ [][TickAdvancesOrStops]_vars
    /\ (runtime.op = "play" /\ stepManager.isPlaying) ~> PlaybackStopped

\* playback over several steps was stopped by the tick after the last step
C28_Witness ==
    /\ pc = "playback"
    /\ runtime.op = "tick"
    /\ Len(stepManager.steps) >= 3
    /\ PlaybackStopped

\* C29: in every reachable state of StepManager isPlaying is true exactly
\* when a playback timer is armed (playbackInterval is not null), and at most
\* one timer is armed at a time.
C29_PlayingIffTimerArmed ==
    pc = "manager" =>
        /\ stepManager.isPlaying <=> stepManager.playbackInterval # null
        /\ Cardinality(runtime.timers) <= 1
        /\ runtime.timers =
              IF stepManager.playbackInterval = null THEN {}
              ELSE {stepManager.playbackInterval}

\* the indices delivered to the listeners
DeliveredIndices == [k \in 1..Len(runtime'.delivered) |-> runtime'.delivered[k].currentIndex]

\* skipToEnd() on a non-empty step list, alone or at the end of handleResult
SkipToEndReplaysRemainingSteps ==
    (runtime'.op \in {"skipToEnd", "handleResult"} /\ stepManager'.steps # <<>>) =>
        LET last == Len(stepManager'.steps) - 1
            from == IF runtime'.op = "skipToEnd" THEN stepManager.currentIndex ELSE 0
        IN  /\ ~stepManager'.isPlaying
            /\ stepManager'.playbackInterval = null
            /\ runtime'.timers = {}
            /\ stepManager'.currentIndex = last
            /\ stepManager'.listeners # {} =>
                  /\ \A k \in 1..(Len(DeliveredIndices) - 1) :
                        DeliveredIndices[k] <= DeliveredIndices[k + 1]
                  /\ Range(DeliveredIndices) = from..last
                  /\ DeliveredIndices[Len(DeliveredIndices)] = last
                  /\ \A k \in 1..(Len(DeliveredIndices) - 1) :
                        DeliveredIndices[k + 1] <= DeliveredIndices[k] + 1

\* C30: skipToEnd(), called in any state with a non-empty step list, stops
\* playback (isPlaying false, timer cleared) and leaves currentIndex =
\* steps.length - 1; the currentIndex values it delivers to the listeners are
\* non-decreasing, cover every index from the previous currentIndex to the
\* last one in ascending order, and the last notification carries the final
\* step.
C30_SkipToEndReplaysRemainingSteps == [][SkipToEndReplaysRemainingSteps]_vars

\* skipToEnd() was called at the first of several steps with a listener
\* subscribed
C30_Witness ==
    /\ pc = "manager"
    /\ runtime.op = "skipToEnd"
    /\ Len(stepManager.steps) >= 3
    /\ stepManager.currentIndex = Len(stepManager.steps) - 1
    /\ Len(runtime.delivered) >= 4
    /\ runtime.delivered[1].currentIndex = 0

====
